---- MODULE Spec2Model ----
(***************************************************************************)
(* PatternClusterer (src/src/patterns/clustering.py): the retained         *)
(* "last fit" snapshot, discover_patterns, validate_cluster_stability and  *)
(* the read methods.                                                       *)
(*                                                                         *)
(* An embedding batch is seen through its shape (n_users, embed_dim); what *)
(* the libraries make of its contents (the HDBSCAN fit, a failure inside   *)
(* the library) is chosen by the environment of each call.  Floats are     *)
(* exact: membership probabilities and outlier scores count halves         *)
(* (2 = 1.0, 1 = 0.5, 0 = 0.0), ratios are pairs <<numerator, denominator>>*)
(* compared by cross multiplication.  A numpy array of n rows is a         *)
(* sequence of length n; row i of the model is index i-1 of the code.      *)
(***************************************************************************)
EXTENDS Integers, Sequences, FiniteSets, TLC

\* Largest batch (rows) handed to an instance under Spec.
MaxUsers == 3

\* Largest batch (rows) of a period under SpecValidate.
MaxPeriodUsers == 4

\* Largest batch (rows) of a period under SpecRepeat.
MaxRepeatUsers == 3

\* Largest batch (rows) handed to an instance under SpecSnapshot.
MaxFitUsers == 3

\* Python's None for an array-valued attribute.  Every array the code retains
\* or returns has at least one row (the empty batch raises first), so the
\* empty sequence is free to stand for None.
None == << >>

Min(a, b) == IF a <= b THEN a ELSE b

Max(a, b) == IF a >= b THEN a ELSE b

\* np.zeros(n) / np.ones(n) in the units of the model.
Zeros(n) == [i \in 1..n |-> 0]

Ones(n) == [i \in 1..n |-> 2]

\* set(labels) of a label array.
LabelSet(labels) == {labels[i] : i \in DOMAIN labels}

\* np.where(labels == c)[0] as a set of code indices (0-based).
Members(labels, c) == {i - 1 : i \in {j \in DOMAIN labels : labels[j] = c}}

----------------------------------------------------------------------------
(* Configuration and inputs                                                *)

\* Constructor arguments (min_cluster_size >= 2, min_samples >= 1): each
\* value of each argument occurs, with min_samples and n_components_pca both
\* below and above the batch sizes.
Configs ==
    {[min_cluster_size |-> 2, min_samples |-> 3, n_components_pca |-> 4],
     [min_cluster_size |-> 3, min_samples |-> 1, n_components_pca |-> 4],
     [min_cluster_size |-> 3, min_samples |-> 3, n_components_pca |-> 2]}

\* embed_dim of a batch: one value above and one between the PCA targets.
EmbedDims == {3, 5}

----------------------------------------------------------------------------
(* The libraries                                                           *)

\* sklearn PCA(n_components=k).fit_transform on an (n, d) matrix raises
\* ValueError unless k <= min(n, d).
PcaFitRaises(k, n, d) == k > Min(n, d)

\* Label arrays HDBSCAN can return for n points with minimum cluster size m:
\* every point is noise (-1) or in one of the clusters 0..K-1, each cluster
\* holding at least m points.
HdbscanLabelings(n, m) ==
    LET top == (n \div m) - 1
    IN  {l \in [1..n -> -1..top] :
            \A c \in 0..top :
                LET size == Cardinality({i \in 1..n : l[i] = c})
                IN  /\ (size = 0 \/ size >= m)
                    /\ (size > 0 /\ c > 0 => \E i \in 1..n : l[i] = c - 1)}

\* A fitted HDBSCAN object: labels_, probabilities_, outlier_scores_.  Noise
\* has probability 0 and a positive outlier score.  With soft = TRUE every
\* cluster of three or more points has a border point, its first member
\* (probability 0.5, positive outlier score); the other members are core
\* points (probability 1.0, outlier score 0.0).
HdbscanFit(l, soft) ==
    LET size(c) == Cardinality({j \in DOMAIN l : l[j] = c})
        border(i) == /\ soft
                     /\ l[i] # -1
                     /\ size(l[i]) >= 3
                     /\ \A j \in 1..(i - 1) : l[j] # l[i]
    IN  [labels_ |-> l,
         probabilities_ |->
             [i \in DOMAIN l |-> IF l[i] = -1 THEN 0 ELSE IF border(i) THEN 1 ELSE 2],
         outlier_scores_ |->
             [i \in DOMAIN l |-> IF l[i] = -1 \/ border(i) THEN 1 ELSE 0]]

NoFit == [labels_ |-> None, probabilities_ |-> None, outlier_scores_ |-> None]

\* What clusterer.fit can do on n points: return a fit, or raise.
HdbscanRuns(n, m) ==
    {[ok |-> TRUE, fit |-> HdbscanFit(l, s)] :
        l \in HdbscanLabelings(n, m), s \in BOOLEAN}
    \cup {[ok |-> FALSE, fit |-> NoFit]}

NoRun == [ok |-> FALSE, fit |-> NoFit]

\* HdbscanRuns, tabulated once for every n and every m <= n of the model.
HdbscanRunsOf ==
    [n \in 1..Max(Max(MaxUsers, MaxFitUsers), Max(MaxPeriodUsers, MaxRepeatUsers)) |->
        [m \in 1..n |-> HdbscanRuns(n, m)]]

\* The runs without border points (soft = FALSE) and the failure.
PlainRunsOf ==
    [n \in DOMAIN HdbscanRunsOf |->
        [m \in 1..n |->
            {r \in HdbscanRunsOf[n][m] :
                r.ok => r.fit = HdbscanFit(r.fit.labels_, FALSE)}]]

\* The warning filters in force once the module is imported:
\* warnings.filterwarnings('ignore', category=UserWarning) puts its entry in
\* front of the interpreter's own, whose last resort is to show the warning.
WarningFilters ==
    <<[action |-> "ignore", category |-> "UserWarning"],
      [action |-> "ignore", category |-> "DeprecationWarning"],
      [action |-> "default", category |-> "Warning"]>>

\* issubclass(category, of) among the categories of the model.
IsWarningSubclass(category, of) == of = category \/ of = "Warning"

\* warnings.warn(message, category): the action of the first filter whose
\* category the warning belongs to.
WarningAction(filters, category) ==
    LET hits == {i \in DOMAIN filters : IsWarningSubclass(category, filters[i].category)}
    IN  IF hits = {} THEN "default"
        ELSE filters[CHOOSE i \in hits : \A j \in hits : i <= j].action

\* A warnings.warn(..., UserWarning) gets through the filters.
UserWarningShown == WarningAction(WarningFilters, "UserWarning") # "ignore"

\* The warnings a caller gets to see of the library calls `steps`: those
\* warnings.warn(..., UserWarning) calls the filters do not drop.
ShownWarnings(steps) ==
    IF UserWarningShown
    THEN SelectSeq(steps, LAMBDA s : s = "warnings.warn")
    ELSE << >>

----------------------------------------------------------------------------
(* PatternClusterer                                                        *)

\* __init__: the configuration, the HDBSCAN object built from it, and an
\* empty snapshot.
NewClusterer(cfg) ==
    [min_cluster_size |-> cfg.min_cluster_size,
     min_samples |-> cfg.min_samples,
     n_components_pca |-> cfg.n_components_pca,
     clusterer |-> [min_cluster_size |-> cfg.min_cluster_size,
                    min_samples |-> cfg.min_samples],
     cluster_labels_ |-> None,
     probabilities_ |-> None,
     outlier_scores_ |-> None,
     visualization_coords_ |-> None]

\* The retained last-fit snapshot of an instance.
Snapshot(obj) ==
    <<obj.cluster_labels_, obj.probabilities_, obj.outlier_scores_,
      obj.visualization_coords_>>

\* Mutant of EmptyBatch: the empty-batch check left out.
EmptyBatchIgnored(n) == FALSE

\* if n_users == 0: raise ValueError
EmptyBatch(n) == n = 0

\* if n_users < self.min_cluster_size: the single-cluster fallback
TooFewUsers(obj, n) == n < obj.min_cluster_size

\* if use_pca and embed_dim > self.n_components_pca
PcaApplies(obj, d, use_pca) == use_pca /\ d > obj.n_components_pca

\* Mutant of EffectiveMinSamples: the configured value, not clamped.
ConfiguredMinSamples(obj, n) == obj.min_samples

\* The min_samples handed to HDBSCAN.
EffectiveMinSamples(obj, n) ==
    IF n < obj.min_samples THEN Max(1, n) ELSE obj.min_samples

\* The min_cluster_size handed to HDBSCAN.
EffectiveMinClusterSize(obj, n) == Min(obj.min_cluster_size, n)

\* _create_visualization_coords: PCA(n_components=2) of the standardized
\* (pre-reduction) matrix, one row per user.
CreateVisualizationCoords(n) == [i \in 1..n |-> "pca2d(scaled)"]

\* np.zeros((n, 2)) of the fallback.
ZeroCoords(n) == [i \in 1..n |-> "zeros"]

\* The fallback branch: labels, probabilities_, outlier_scores_, coords.
FallbackLabels(n) == Zeros(n)

\* Mutant of FallbackProbabilities: np.zeros in place of np.ones.
FallbackProbabilitiesZeros(n) == Zeros(n)

FallbackProbabilities(n) == Ones(n)

FallbackOutlierScores(n) == Zeros(n)

\* The library runs a discover call on an (n, d) batch can meet: HDBSCAN is
\* reached only past the two early exits and the PCA fit.
LibraryRuns(obj, n, d, use_pca) ==
    IF  \/ EmptyBatch(n)
        \/ TooFewUsers(obj, n)
        \/ (PcaApplies(obj, d, use_pca) /\ PcaFitRaises(obj.n_components_pca, n, d))
    THEN {NoRun}
    ELSE HdbscanRunsOf[n][EffectiveMinClusterSize(obj, n)]

\* Mutant of FitRaised: the failure is caught and the single-cluster
\* fallback returned in its place.
FitRaisedFallsBack(built, pre, n) ==
    [obj |-> [built EXCEPT !.cluster_labels_ = FallbackLabels(n),
                           !.probabilities_ = FallbackProbabilities(n),
                           !.outlier_scores_ = FallbackOutlierScores(n)],
     outcome |-> "returned", steps |-> pre \o <<"hdbscan: raised">>,
     labels |-> FallbackLabels(n), viz_coords |-> None]

\* Mutant of FitRaised: the labels are cleared before the exception leaves.
FitRaisedClearsLabels(built, pre, n) ==
    [obj |-> [built EXCEPT !.cluster_labels_ = None], outcome |-> "hdbscan error",
     steps |-> pre \o <<"hdbscan: raised">>,
     labels |-> None, viz_coords |-> None]

\* self.clusterer.fit(...) raises inside discover_patterns: no handler is
\* around it, so the library's exception leaves the call as it is, after the
\* new HDBSCAN object was stored and before any snapshot field is assigned.
FitRaised(built, pre, n) ==
    [obj |-> built, outcome |-> "hdbscan error",
     steps |-> pre \o <<"hdbscan: raised">>,
     labels |-> None, viz_coords |-> None]

\* discover_patterns(embeddings, use_pca, create_visualization) on instance
\* obj, with `run` what clusterer.fit does if it is reached.  The result
\* holds the instance afterwards, how the call ended, the library calls made
\* in order, and the returned pair.
discover_patterns(obj, n, d, use_pca, create_visualization, run) ==
    IF EmptyBatch(n) THEN
        [obj |-> obj, outcome |-> "ValueError: no embeddings", steps |-> << >>,
         labels |-> None, viz_coords |-> None]
    ELSE IF TooFewUsers(obj, n) THEN
        LET coords == IF create_visualization THEN ZeroCoords(n) ELSE None
        IN  [obj |-> [obj EXCEPT !.cluster_labels_ = FallbackLabels(n),
                                 !.probabilities_ = FallbackProbabilities(n),
                                 !.outlier_scores_ = FallbackOutlierScores(n),
                                 !.visualization_coords_ = coords],
             outcome |-> "returned", steps |-> <<"warnings.warn">>,
             labels |-> FallbackLabels(n), viz_coords |-> coords]
    ELSE IF PcaApplies(obj, d, use_pca)
            /\ PcaFitRaises(obj.n_components_pca, n, d) THEN
        [obj |-> obj, outcome |-> "ValueError: pca n_components",
         steps |-> <<"scaler", "pca">>, labels |-> None, viz_coords |-> None]
    ELSE
        LET pre == IF PcaApplies(obj, d, use_pca)
                   THEN <<"scaler", "pca">> ELSE <<"scaler">>
            built == [obj EXCEPT !.clusterer =
                        [min_cluster_size |-> EffectiveMinClusterSize(obj, n),
                         min_samples |-> EffectiveMinSamples(obj, n)]]
        IN  IF ~run.ok THEN FitRaised(built, pre, n)
            ELSE
                LET fitted == [built EXCEPT
                                  !.cluster_labels_ = run.fit.labels_,
                                  !.probabilities_ = run.fit.probabilities_,
                                  !.outlier_scores_ = run.fit.outlier_scores_]
                IN  IF create_visualization THEN
                        [obj |-> [fitted EXCEPT !.visualization_coords_ =
                                     CreateVisualizationCoords(n)],
                         outcome |-> "returned",
                         steps |-> pre \o <<"hdbscan", "pca2d">>,
                         labels |-> run.fit.labels_,
                         viz_coords |-> CreateVisualizationCoords(n)]
                    ELSE
                        [obj |-> fitted, outcome |-> "returned",
                         steps |-> pre \o <<"hdbscan">>,
                         labels |-> run.fit.labels_, viz_coords |-> None]

----------------------------------------------------------------------------
(* Read methods                                                            *)

\* Mutant of NotFitted: the guard tests the projection instead of the labels.
NotFittedByCoords(obj) == obj.visualization_coords_ = None

\* `if self.cluster_labels_ is None: raise ValueError(...)` of the three
\* read methods.
NotFitted(obj) == obj.cluster_labels_ = None

RECURSIVE SumOver(_, _)
\* sum of f over the finite set S
SumOver(f, S) ==
    IF S = {} THEN 0
    ELSE LET x == CHOOSE y \in S : TRUE IN f[x] + SumOver(f, S \ {x})

SetMin(S) == CHOOSE x \in S : \A y \in S : x <= y

SetMax(S) == CHOOSE x \in S : \A y \in S : x >= y

\* Mutant of ClusterStats: the mean membership probability is taken over all
\* rows of the batch.
ClusterStatsMeanOverTotal(obj, label) ==
    LET mask == {i \in DOMAIN obj.cluster_labels_ : obj.cluster_labels_[i] = label}
        cluster_size == Cardinality(mask)
        n_total == Len(obj.cluster_labels_)
        probs == {obj.probabilities_[i] : i \in mask}
    IN  [size |-> cluster_size,
         percentage |-> <<cluster_size * 100, n_total>>,
         avg_membership_probability |-> <<SumOver(obj.probabilities_, mask), n_total>>,
         min_membership_probability |-> SetMin(probs),
         max_membership_probability |-> SetMax(probs),
         cohesion |-> <<SumOver(obj.probabilities_, mask), n_total>>]

\* The per-cluster entry of get_cluster_statistics (mask = labels == label).
ClusterStats(obj, label) ==
    LET mask == {i \in DOMAIN obj.cluster_labels_ : obj.cluster_labels_[i] = label}
        cluster_size == Cardinality(mask)
        n_total == Len(obj.cluster_labels_)
        probs == {obj.probabilities_[i] : i \in mask}
    IN  [size |-> cluster_size,
         percentage |-> <<cluster_size * 100, n_total>>,
         avg_membership_probability |-> <<SumOver(obj.probabilities_, mask), cluster_size>>,
         min_membership_probability |-> SetMin(probs),
         max_membership_probability |-> SetMax(probs),
         cohesion |-> <<SumOver(obj.probabilities_, mask), cluster_size>>]

\* get_cluster_statistics on a fitted instance.
get_cluster_statistics(obj) ==
    LET unique_labels == LabelSet(obj.cluster_labels_)
        n_noise == Cardinality(Members(obj.cluster_labels_, -1))
        n_total == Len(obj.cluster_labels_)
        cluster_stats == [label \in unique_labels \ {-1} |-> ClusterStats(obj, label)]
        sizes == [label \in DOMAIN cluster_stats |-> cluster_stats[label].size]
        some == DOMAIN cluster_stats # {}
    IN  [n_clusters |-> Cardinality(unique_labels)
                            - (IF -1 \in unique_labels THEN 1 ELSE 0),
         n_noise |-> n_noise,
         n_total |-> n_total,
         noise_percentage |-> <<n_noise * 100, n_total>>,
         clusters |-> cluster_stats,
         avg_cluster_size |->
             IF some THEN <<SumOver(sizes, DOMAIN sizes), Cardinality(DOMAIN sizes)>>
             ELSE <<0, 1>>,
         largest_cluster_size |->
             IF some THEN SetMax({sizes[l] : l \in DOMAIN sizes}) ELSE 0,
         smallest_cluster_size |->
             IF some THEN SetMin({sizes[l] : l \in DOMAIN sizes}) ELSE 0]

\* get_cluster_members on a fitted instance.
get_cluster_members(obj, cluster_id) == Members(obj.cluster_labels_, cluster_id)

\* Mutant of get_cluster_label: the label of the next row.
get_cluster_label_next(obj, user_index) ==
    obj.cluster_labels_[((user_index + 1) % Len(obj.cluster_labels_)) + 1]

\* get_cluster_label on a fitted instance, user_index within the array.
get_cluster_label(obj, user_index) == obj.cluster_labels_[user_index + 1]

----------------------------------------------------------------------------
(* validate_cluster_stability                                              *)

\* Floats as exact ratios <<numerator, denominator>>, denominator > 0.
Gt(a, b) == a[1] * b[2] > b[1] * a[2]

Ge(a, b) == a[1] * b[2] >= b[1] * a[2]

Eq(a, b) == a[1] * b[2] = b[1] * a[2]

\* overlap_threshold values: 0, the default 0.3, and 1.
Thresholds == {<<0, 1>>, <<3, 10>>, <<1, 1>>}

RECURSIVE Ascending(_)
\* Iteration order of a Python set of small non-negative ints: ascending.
Ascending(S) ==
    IF S = {} THEN << >>
    ELSE <<SetMin(S)>> \o Ascending(S \ {SetMin(S)})

\* intersection / union if union > 0 else 0.0
Jaccard(users1, users2) ==
    LET union == Cardinality(users1 \cup users2)
    IN  IF union > 0 THEN <<Cardinality(users1 \cap users2), union>> ELSE <<0, 1>>

\* Mutant of BetterMatch: `>=` in place of `>`.
BetterMatchOrEqual(overlap, max_overlap) == Ge(overlap, max_overlap)

\* One pass of the inner loop body: `if overlap > max_overlap`.
BetterMatch(overlap, max_overlap) == Gt(overlap, max_overlap)

RECURSIVE BestMatchLoop(_, _, _, _)
\* The inner loop `for label2 in unique_labels2` over the remaining labels.
BestMatchLoop(users1, labels2, todo, acc) ==
    IF todo = << >> THEN acc
    ELSE LET label2 == Head(todo)
             overlap == Jaccard(users1, Members(labels2, label2))
         IN  BestMatchLoop(users1, labels2, Tail(todo),
                 IF BetterMatch(overlap, acc.max_overlap)
                 THEN [max_overlap |-> overlap, best_match |-> <<label2>>]
                 ELSE acc)

\* Mutant of BestMatch: the inner loop leaves after its first pass.
BestMatchFirstOnly(labels1, labels2, label1) ==
    BestMatchLoop(Members(labels1, label1), labels2,
                  SubSeq(Ascending(LabelSet(labels2) \ {-1}), 1,
                         Min(1, Cardinality(LabelSet(labels2) \ {-1}))),
                  [max_overlap |-> <<0, 1>>, best_match |-> << >>])

\* max_overlap and best_match of one period-1 cluster; best_match is << >>
\* for None and <<c2>> for a cluster id.
BestMatch(labels1, labels2, label1) ==
    BestMatchLoop(Members(labels1, label1), labels2,
                  Ascending(LabelSet(labels2) \ {-1}),
                  [max_overlap |-> <<0, 1>>, best_match |-> << >>])

\* Mutant of IsStable: `>` in place of `>=`.
IsStableStrict(max_overlap, threshold) == Gt(max_overlap, threshold)

\* 'is_stable': bool(max_overlap >= threshold)
IsStable(max_overlap, threshold) == Ge(max_overlap, threshold)

\* `if max_overlap >= threshold: stable_patterns += 1`
CountsAsStable(max_overlap, threshold) == Ge(max_overlap, threshold)

\* 'stability_rate': stable_patterns / len(unique_labels1) if unique_labels1 else 0.0
StabilityRate(stable_patterns, n1) ==
    IF n1 > 0 THEN <<stable_patterns, n1>> ELSE <<0, 1>>

\* The report computed from the two label arrays.
StabilityReport(labels1, labels2, threshold) ==
    LET unique_labels1 == LabelSet(labels1) \ {-1}
        unique_labels2 == LabelSet(labels2) \ {-1}
        best == [label1 \in unique_labels1 |-> BestMatch(labels1, labels2, label1)]
        stable_patterns ==
            Cardinality({label1 \in unique_labels1 :
                            CountsAsStable(best[label1].max_overlap, threshold)})
    IN  [n_patterns_period1 |-> Cardinality(unique_labels1),
         n_patterns_period2 |-> Cardinality(unique_labels2),
         overlap_scores |->
             [label1 \in unique_labels1 |->
                 [overlap |-> best[label1].max_overlap,
                  best_match |-> best[label1].best_match,
                  is_stable |-> IsStable(best[label1].max_overlap, threshold)]],
         n_stable_patterns |-> stable_patterns,
         stability_rate |-> StabilityRate(stable_patterns, Cardinality(unique_labels1)),
         threshold_used |-> threshold]

\* labels2_obj: a second instance built from self's configuration.
TempClusterer(obj) ==
    NewClusterer([min_cluster_size |-> obj.min_cluster_size,
                  min_samples |-> obj.min_samples,
                  n_components_pca |-> obj.n_components_pca])

\* Mutant of ValidateDiscovers: the first period too is clustered on an
\* instance of its own.
ValidateDiscoversOnCopies(r1, r2) ==
    IF r1.outcome # "returned" THEN
        [obj |-> r1.obj, outcome |-> r1.outcome, steps |-> r1.steps,
         steps2 |-> << >>, labels1 |-> None, labels2 |-> None]
    ELSE
        [obj |-> TempClusterer(r1.obj), outcome |-> r2.outcome, steps |-> r1.steps,
         steps2 |-> r2.steps, labels1 |-> r1.labels, labels2 |-> r2.labels]

\* The two discover calls of validate_cluster_stability(embeddings1,
\* embeddings2, threshold): r1 is the result of the first, on self with
\* create_visualization=False, r2 that of the second, on labels2_obj.  A
\* call that raises ends validate with that exception (the second is then
\* never made if the first raised).
ValidateDiscovers(r1, r2) ==
    IF r1.outcome # "returned" THEN
        [obj |-> r1.obj, outcome |-> r1.outcome, steps |-> r1.steps,
         steps2 |-> << >>, labels1 |-> None, labels2 |-> None]
    ELSE
        [obj |-> r1.obj, outcome |-> r2.outcome, steps |-> r1.steps,
         steps2 |-> r2.steps, labels1 |-> r1.labels, labels2 |-> r2.labels]

\* What validate_cluster_stability returns once both discover calls have
\* returned (v is their ValidateDiscovers): <<report>>, or << >> if it raised.
ValidateReturn(v, threshold) ==
    IF v.outcome = "returned"
    THEN <<StabilityReport(v.labels1, v.labels2, threshold)>>
    ELSE << >>

----------------------------------------------------------------------------
(* State                                                                   *)

VARIABLES
    self,       \* the PatternClusterer instance: configuration and snapshot
    call,       \* the last call made on it and how it ended
    everFit,    \* history: some discover call on self has returned labels
    args,       \* SpecValidate, SpecRepeat: the arguments of the validate call
    report,     \* SpecValidate, SpecRepeat: what validate returned
    report2     \* SpecRepeat: what the second, identical validate call returned

vars == <<self, call, everFit, args, report, report2>>

\* The record of a call: the method, its arguments (n of the batch, the
\* read's argument), how it ended, the library calls it made (a call that
\* raised is marked so), the warnings shown to the caller, what it returned.
Call(op, n, viz, arg, outcome, steps, steps2, labels, viz_coords, result) ==
    [op |-> op, n |-> n, create_visualization |-> viz, arg |-> arg,
     outcome |-> outcome, steps |-> steps, steps2 |-> steps2,
     diagnostics |-> ShownWarnings(steps \o steps2),
     labels |-> labels, viz_coords |-> viz_coords, result |-> result]

NoCall == Call("__init__", 0, FALSE, 0, "returned", << >>, << >>, None, None, None)

\* No validate call pending.
NoArgs ==
    [n1 |-> 0, n2 |-> 0, d |-> 0, run1 |-> NoRun, run2 |-> NoRun,
     threshold |-> <<0, 1>>, svd_solver |-> "full"]

Init ==
    /\ \E cfg \in Configs : self = NewClusterer(cfg)
    /\ call = NoCall
    /\ everFit = FALSE
    /\ args = NoArgs
    /\ report = << >>
    /\ report2 = << >>

\* clusterer.discover_patterns(embeddings, use_pca, create_visualization)
Discover ==
    /\ \E n \in 0..MaxUsers, d \in EmbedDims, use_pca \in BOOLEAN, viz \in BOOLEAN :
        \E run \in LibraryRuns(self, n, d, use_pca) :
            \E r \in {discover_patterns(self, n, d, use_pca, viz, run)} :
                /\ self' = r.obj
                /\ call' = Call("discover_patterns", n, viz, 0, r.outcome, r.steps,
                                << >>, r.labels, r.viz_coords, None)
                /\ everFit' = (everFit \/ r.outcome = "returned")
    /\ UNCHANGED <<args, report, report2>>

\* One library run for each way a set of runs can end (a fit, a failure).
Endings(runs) == {CHOOSE r \in runs : r.ok = ok : ok \in {r.ok : r \in runs}}

EndingsOf ==
    [n \in 1..MaxUsers |-> [m \in 1..n |-> Endings(HdbscanRunsOf[n][m])]]

\* The constructor arguments of an instance.
ConfigOf(obj) ==
    [min_cluster_size |-> obj.min_cluster_size, min_samples |-> obj.min_samples,
     n_components_pca |-> obj.n_components_pca]

\* How labels2_obj.discover_patterns(embeddings2, create_visualization=False)
\* can end on a batch of up to MaxUsers rows of dimension d, for an instance
\* built from cfg: the outcome and the library calls made (the labels and the
\* instance are dropped with the call).
SecondDiscoverEndings ==
    [cfg \in Configs |-> [d \in EmbedDims |->
        UNION {{LET r == discover_patterns(NewClusterer(cfg), n2, d, TRUE, FALSE, run2)
                IN  [outcome |-> r.outcome, steps |-> r.steps, labels |-> None] :
                    run2 \in IF LibraryRuns(NewClusterer(cfg), n2, d, TRUE) = {NoRun}
                             THEN {NoRun}
                             ELSE EndingsOf[n2][EffectiveMinClusterSize(NewClusterer(cfg), n2)]} :
               n2 \in 0..MaxUsers}]]

\* clusterer.validate_cluster_stability(embeddings1, embeddings2, threshold):
\* its effect on the instance and how it ends.  Both batches come from one
\* embedder, hence one embed_dim.  The report it returns is not retained here
\* (SpecValidate checks it), so the second instance's fit is drawn up to how
\* its discover call ends.
Validate ==
    /\ \E n1 \in 0..MaxUsers, d \in EmbedDims :
        \E run1 \in LibraryRuns(self, n1, d, TRUE) :
                \E r1 \in {discover_patterns(self, n1, d, TRUE, FALSE, run1)} :
                \E r2 \in SecondDiscoverEndings[ConfigOf(TempClusterer(r1.obj))][d] :
                \E v \in {ValidateDiscovers(r1, r2)} :
                    /\ self' = v.obj
                    /\ call' = Call("validate_cluster_stability", n1, FALSE, 0,
                                    v.outcome, v.steps, v.steps2, v.labels1,
                                    None, None)
                    /\ everFit' = (everFit \/ v.labels1 # None)
    /\ UNCHANGED <<args, report, report2>>

\* How clusterer.get_cluster_statistics() ends on the instance as it is.
GetClusterStatisticsCall ==
    call' = IF NotFitted(self)
            THEN Call("get_cluster_statistics", 0, FALSE, 0,
                      "ValueError: not fitted", << >>, << >>, None, None, None)
            ELSE Call("get_cluster_statistics", 0, FALSE, 0, "returned",
                      << >>, << >>, None, None, get_cluster_statistics(self))

\* clusterer.get_cluster_statistics()
GetClusterStatistics ==
    /\ GetClusterStatisticsCall
    /\ UNCHANGED <<self, everFit, args, report, report2>>

\* clusterer.get_cluster_members(cluster_id)
GetClusterMembers ==
    \E cluster_id \in -1..(MaxUsers \div 2) :
        /\ call' = IF NotFitted(self)
                   THEN Call("get_cluster_members", 0, FALSE, cluster_id,
                             "ValueError: not fitted", << >>, << >>, None, None, None)
                   ELSE Call("get_cluster_members", 0, FALSE, cluster_id, "returned",
                             << >>, << >>, None, None,
                             get_cluster_members(self, cluster_id))
        /\ UNCHANGED <<self, everFit, args, report, report2>>

\* clusterer.get_cluster_label(user_index)
GetClusterLabel ==
    \E user_index \in 0..MaxUsers :
        /\ call' = IF NotFitted(self)
                   THEN Call("get_cluster_label", 0, FALSE, user_index,
                             "ValueError: not fitted", << >>, << >>, None, None, None)
                   ELSE IF user_index >= Len(self.cluster_labels_)
                   THEN Call("get_cluster_label", 0, FALSE, user_index,
                             "IndexError", << >>, << >>, None, None, None)
                   ELSE Call("get_cluster_label", 0, FALSE, user_index, "returned",
                             << >>, << >>, None, None,
                             get_cluster_label(self, user_index))
        /\ UNCHANGED <<self, everFit, args, report, report2>>

Next ==
    \/ Discover
    \/ Validate
    \/ GetClusterStatistics
    \/ GetClusterMembers
    \/ GetClusterLabel

\* The life of one instance: any sequence of discover, validate and read calls.
Spec == Init /\ [][Next]_vars

----------------------------------------------------------------------------
(* validate_cluster_stability as a function of its arguments               *)

\* The fit HDBSCAN returns in a call of validate on a batch whose fit on the
\* exactly reduced data is `given`.  PCA(n_components) is built without
\* random_state: where sklearn's 'auto' policy picks the randomized solver
\* for the batch, the reduced data, and with it the fit, vary from call to
\* call; otherwise the fit is a function of the batch.
FitsOfBatch(obj, n, d, given, svd_solver) ==
    IF given.ok /\ PcaApplies(obj, d, TRUE) /\ svd_solver = "randomized"
    THEN {r \in LibraryRuns(obj, n, d, TRUE) : r.ok}
    ELSE {given}

\* A fresh instance and the arguments of one validate call: two batches of
\* up to maxn rows from one embedder, each with the fit HDBSCAN makes of it
\* (the second instance is discarded, so only its labels are drawn), and the
\* threshold.
InitArgs(maxn, solvers) ==
    /\ \E cfg \in Configs : self = NewClusterer(cfg)
    /\ call = NoCall
    /\ everFit = FALSE
    /\ report = << >>
    /\ report2 = << >>
    /\ \E n1 \in 0..maxn, n2 \in 0..maxn, d \in EmbedDims,
          threshold \in Thresholds, solver \in solvers :
        \E run1 \in LibraryRuns(self, n1, d, TRUE) :
            \E run2 \in IF LibraryRuns(self, n2, d, TRUE) = {NoRun} THEN {NoRun}
                         ELSE PlainRunsOf[n2][EffectiveMinClusterSize(self, n2)] :
                args = [n1 |-> n1, n2 |-> n2, d |-> d, run1 |-> run1,
                        run2 |-> run2, threshold |-> threshold,
                        svd_solver |-> solver]

\* One call clusterer.validate_cluster_stability(embeddings1, embeddings2,
\* threshold) with the arguments args: the instance afterwards, the call
\* record and the returned report.
ValidateCall(rep) ==
    \E run1 \in FitsOfBatch(self, args.n1, args.d, args.run1, args.svd_solver) :
    \E run2 \in FitsOfBatch(self, args.n2, args.d, args.run2, args.svd_solver) :
    \E r1 \in {discover_patterns(self, args.n1, args.d, TRUE, FALSE, run1)} :
    \E r2 \in {discover_patterns(TempClusterer(r1.obj), args.n2, args.d,
                                  TRUE, FALSE, run2)} :
    \E v \in {ValidateDiscovers(r1, r2)} :
        /\ self' = v.obj
        /\ call' = Call("validate_cluster_stability", args.n1, FALSE, 0,
                        v.outcome, v.steps, v.steps2, v.labels1, None, v.labels2)
        /\ everFit' = (everFit \/ v.labels1 # None)
        /\ rep = ValidateReturn(v, args.threshold)

InitValidate == InitArgs(MaxPeriodUsers, {"full"})

\* The validate call.
ValidateStability ==
    /\ call.op = "__init__"
    /\ ValidateCall(report')
    /\ UNCHANGED <<args, report2>>

NextValidate == ValidateStability

\* One validate call on a fresh instance, for every choice of arguments.
SpecValidate == InitValidate /\ [][NextValidate]_vars

InitRepeat == InitArgs(MaxRepeatUsers, {"full", "randomized"})

\* The same validate call a second time, on the same instance with the same
\* arguments.
ValidateAgain ==
    /\ call.op = "validate_cluster_stability"
    /\ report2 = << >>
    /\ report # << >>
    /\ ValidateCall(report2')
    /\ UNCHANGED <<args, report>>

NextRepeat ==
    \/ ValidateStability
    \/ ValidateAgain

\* Two identical validate calls in a row.
SpecRepeat == InitRepeat /\ [][NextRepeat]_vars

----------------------------------------------------------------------------
(* The projection of discover_patterns as a function of its arguments      *)

\* Largest batch (rows) under SpecProjection.
MaxProjectionUsers == 3

\* The state of numpy's global random generator when the 2-D PCA of a call is
\* fitted, the caller having seeded it with `seed` right before the call.
\* Neither self.pca nor pca_2d is given a random_state, so a fit by the
\* randomized solver draws from the global generator: the fit of self.pca
\* (the "pca" step) comes first and moves it on.
RngAtProjection(steps, svd_solver, seed) ==
    IF svd_solver = "randomized"
    THEN seed + Cardinality({i \in DOMAIN steps : steps[i] = "pca"})
    ELSE -1

\* The (n, 2) array behind a projection of the model: np.zeros((n, 2)) of the
\* fallback, or pca_2d.fit_transform(embeddings_scaled), which under the
\* randomized solver also depends on the generator's state (rng), under the
\* full solver on nothing else (rng = -1).
ProjectionArray(coords, steps, svd_solver, seed) ==
    [i \in DOMAIN coords |->
        IF coords[i] = "zeros"
        THEN [of |-> "zeros", columns |-> 2, rng |-> -1]
        ELSE [of |-> "scaled", columns |-> 2,
              rng |-> RngAtProjection(steps, svd_solver, seed)]]

\* discover_patterns on a batch for which sklearn picks svd_solver, with the
\* global generator seeded right before: the result r of discover_patterns
\* with the projection spelled out.
WithProjection(r, svd_solver, seed) ==
    IF r.viz_coords = None THEN r
    ELSE LET array == ProjectionArray(r.viz_coords, r.steps, svd_solver, seed)
         IN  [r EXCEPT !.viz_coords = array,
                       !.obj = [r.obj EXCEPT !.visualization_coords_ = array]]

\* A fresh instance and one batch, with the fit HDBSCAN makes of it, the
\* solver sklearn picks for its shape, the create_visualization flag of the
\* calls and the seed the caller sets before each of them.
InitProjection ==
    /\ \E cfg \in Configs : self = NewClusterer(cfg)
    /\ call = NoCall
    /\ everFit = FALSE
    /\ report = << >>
    /\ report2 = << >>
    /\ \E n \in 0..MaxProjectionUsers, d \in EmbedDims, viz \in BOOLEAN,
          solver \in {"full", "randomized"} :
        \E run \in LibraryRuns(self, n, d, FALSE) :
            args = [n1 |-> n, n2 |-> 0, d |-> d, run1 |-> run, run2 |-> NoRun,
                    threshold |-> <<0, 1>>, svd_solver |-> solver,
                    create_visualization |-> viz, seed |-> 0]

\* np.random.seed(args.seed); clusterer.discover_patterns(embeddings,
\* use_pca, args.create_visualization) on the batch of args; rep is how the
\* call ended and the projection it returned.
DiscoverBatch(use_pca, rep) ==
    \E r \in {WithProjection(discover_patterns(self, args.n1, args.d, use_pca,
                                               args.create_visualization, args.run1),
                             args.svd_solver, args.seed)} :
        /\ self' = r.obj
        /\ call' = Call("discover_patterns", args.n1, args.create_visualization,
                        0, r.outcome, r.steps, << >>, r.labels, r.viz_coords, None)
        /\ everFit' = (everFit \/ r.outcome = "returned")
        /\ rep = <<[outcome |-> r.outcome, viz_coords |-> r.viz_coords]>>

\* The call with use_pca=True.
DiscoverReduced ==
    /\ report = << >>
    /\ DiscoverBatch(TRUE, report')
    /\ UNCHANGED <<args, report2>>

\* The call with use_pca=False.
DiscoverUnreduced ==
    /\ report2 = << >>
    /\ DiscoverBatch(FALSE, report2')
    /\ UNCHANGED <<args, report>>

NextProjection ==
    \/ DiscoverReduced
    \/ DiscoverUnreduced

\* The same batch handed to discover_patterns with and without reduction.
SpecProjection == InitProjection /\ [][NextProjection]_vars

----------------------------------------------------------------------------
(* BehavioralEmbedder (src/src/patterns/embedder.py)                       *)
(*                                                                         *)
(* An intent record is a dict; a key it lacks is << >>, a key it has is    *)
(* <<value>>.  Numbers are exact ratios <<numerator, denominator>>; a      *)
(* confidence counts tenths, time counts whole days, day 0 being a Monday. *)
(* A timestamp string is seen through its form (an ISO string without      *)
(* offset, one ending in 'Z', one that does not parse, the empty string)   *)
(* and the day it names.                                                   *)

\* Most records of a history under SpecCompose.
MaxHistory == 2

\* record.get(key, default)
Get(record, key, default) ==
    IF record[key] = << >> THEN default ELSE record[key][1]

\* The characters of the strings of the model: the intent labels of the
\* records and the words the features look for.
Chars ==
    "" :> <<>>
    @@ "Compare_Deals" :> <<"C", "o", "m", "p", "a", "r", "e", "_", "D", "e", "a", "l", "s">>
    @@ "research_category" :> <<"r", "e", "s", "e", "a", "r", "c", "h", "_", "c", "a", "t", "e", "g", "o", "r", "y">>
    @@ "ready_to_purchase" :> <<"r", "e", "a", "d", "y", "_", "t", "o", "_", "p", "u", "r", "c", "h", "a", "s", "e">>
    @@ "BROWSING_inspiration" :> <<"B", "R", "O", "W", "S", "I", "N", "G", "_", "i", "n", "s", "p", "i", "r", "a", "t", "i", "o", "n">>
    @@ "evaluate_fit" :> <<"e", "v", "a", "l", "u", "a", "t", "e", "_", "f", "i", "t">>
    @@ "compare_then_purchase" :> <<"c", "o", "m", "p", "a", "r", "e", "_", "t", "h", "e", "n", "_", "p", "u", "r", "c", "h", "a", "s", "e">>
    @@ "comparison_shopping" :> <<"c", "o", "m", "p", "a", "r", "i", "s", "o", "n", "_", "s", "h", "o", "p", "p", "i", "n", "g">>
    @@ "already_bought" :> <<"a", "l", "r", "e", "a", "d", "y", "_", "b", "o", "u", "g", "h", "t">>
    @@ "gift_shopping" :> <<"g", "i", "f", "t", "_", "s", "h", "o", "p", "p", "i", "n", "g">>
    @@ "research" :> <<"r", "e", "s", "e", "a", "r", "c", "h">>
    @@ "browsing" :> <<"b", "r", "o", "w", "s", "i", "n", "g">>
    @@ "compare" :> <<"c", "o", "m", "p", "a", "r", "e">>
    @@ "evaluate" :> <<"e", "v", "a", "l", "u", "a", "t", "e">>
    @@ "ready" :> <<"r", "e", "a", "d", "y">>
    @@ "purchase" :> <<"p", "u", "r", "c", "h", "a", "s", "e">>
    @@ "deal" :> <<"d", "e", "a", "l">>
    @@ "price" :> <<"p", "r", "i", "c", "e">>
    @@ "gift" :> <<"g", "i", "f", "t">>

\* The upper-case letters and what str.lower() makes of them.
UpperCase ==
    "A" :> "a" @@ "B" :> "b" @@ "C" :> "c" @@ "D" :> "d" @@ "E" :> "e" @@ "F" :> "f"
    @@ "G" :> "g" @@ "H" :> "h" @@ "I" :> "i" @@ "J" :> "j" @@ "K" :> "k" @@ "L" :> "l"
    @@ "M" :> "m" @@ "N" :> "n" @@ "O" :> "o" @@ "P" :> "p" @@ "Q" :> "q" @@ "R" :> "r"
    @@ "S" :> "s" @@ "T" :> "t" @@ "U" :> "u" @@ "V" :> "v" @@ "W" :> "w" @@ "X" :> "x"
    @@ "Y" :> "y" @@ "Z" :> "z"

\* Mutant of Lower: the label is compared as it is written.
LowerNot(text) == Chars[text]

\* str.lower(): the characters of the text, each upper-case letter replaced.
Lower(text) ==
    [i \in DOMAIN Chars[text] |->
        IF Chars[text][i] \in DOMAIN UpperCase
        THEN UpperCase[Chars[text][i]] ELSE Chars[text][i]]

\* `word in text`: the characters of the word occur in the text, in a row.
HasSubstring(text, word) ==
    \E i \in 1..(Len(text) - Len(Chars[word]) + 1) :
        SubSeq(text, i, i + Len(Chars[word]) - 1) = Chars[word]

\* 'a' in r.get('intent', '').lower() or 'b' in r.get('intent', '').lower()
IntentHas(record, a, b) ==
    \/ HasSubstring(Lower(Get(record, "intent", "")), a)
    \/ HasSubstring(Lower(Get(record, "intent", "")), b)

\* sum(1 for r in history if P(r))
CountIf(history, P(_)) == Cardinality({i \in DOMAIN history : P(history[i])})

\* An integer as a vector entry.
Num(x) == <<x, 1>>

\* np.zeros(n)
ZeroVector(n) == [i \in 1..n |-> Num(0)]

\* self.text_encoder.encode(journey_description): a vector of embedding_dim
\* entries, a function of the text alone.
Encode(embedding_dim, journey_description) ==
    [k \in 1..embedding_dim |-> [text |-> journey_description, entry |-> k]]

\* _create_intent_sequence_embedding
CreateIntentSequenceEmbedding(emb, history) ==
    LET intent_sequence == [i \in DOMAIN history |-> Get(history[i], "intent", "unknown")]
    IN  Encode(emb.embedding_dim,
               [journey |-> intent_sequence, total_steps |-> Len(intent_sequence)])

\* _extract_behavioral_features (history is not empty)
ExtractBehavioralFeatures(history) ==
    LET session_count == Len(history)
        confidence_sum == SumOver([i \in DOMAIN history |-> Get(history[i], "confidence", 5)],
                                  DOMAIN history)
        unique_intents ==
            Cardinality({Get(history[i], "intent", "unknown") : i \in DOMAIN history})
        research(r) == IntentHas(r, "research", "browsing")
        compare(r) == IntentHas(r, "compare", "evaluate")
        decision(r) == IntentHas(r, "ready", "purchase")
        deal(r) == IntentHas(r, "deal", "price")
        gift(r) == IntentHas(r, "gift", "gift")
        engaged(r) == Get(r, "engagement_level", "medium") \in {"high", "very_high"}
        research_count == CountIf(history, research)
        compare_count == CountIf(history, compare)
        decision_count == CountIf(history, decision)
        unique_channels ==
            Cardinality({Get(history[i], "channel", "direct") : i \in DOMAIN history})
    IN  <<Num(session_count),
          <<confidence_sum, 10 * session_count>>,
          <<unique_intents, Max(session_count, 1)>>,
          <<research_count, session_count>>,
          <<compare_count, session_count>>,
          <<decision_count, session_count>>,
          <<CountIf(history, engaged), session_count>>,
          <<unique_channels, Max(session_count, 1)>>,
          <<CountIf(history, deal), session_count>>,
          <<CountIf(history, gift), session_count>>,
          Num(IF decision_count > 0 THEN 1 ELSE 0),
          <<session_count - unique_intents, Max(session_count, 1)>>,
          Num(unique_intents),
          Num(research_count),
          Num(compare_count)>>

\* datetime.fromisoformat(ts_str.replace('Z', '+00:00')): <<datetime>>, or
\* << >> where it raises (the bare except passes).  A string ending in 'Z'
\* gives a timezone-aware datetime, one without offset a naive one.
ParseTimestamp(ts_str) ==
    CASE ts_str.form = "naive" -> <<[aware |-> FALSE, day |-> ts_str.day]>>
      [] ts_str.form = "utc-z" -> <<[aware |-> TRUE, day |-> ts_str.day]>>
      [] OTHER -> << >>

\* The '' of record.get('timestamp', '').
EmptyString == [form |-> "empty", day |-> 0]

RECURSIVE ParsedTimestamps(_)
\* The list `timestamps` after the parsing loop: the parsed timestamps of the
\* records that have a non-empty one, in order.
ParsedTimestamps(history) ==
    IF history = << >> THEN << >>
    ELSE LET ts_str == Get(Head(history), "timestamp", EmptyString)
         IN  (IF ts_str.form = "empty" THEN << >> ELSE ParseTimestamp(ts_str))
             \o ParsedTimestamps(Tail(history))

\* max(timestamps) and min(timestamps) raise TypeError when a naive datetime
\* meets an aware one.
OrderingRaises(timestamps) ==
    \E i, j \in DOMAIN timestamps : timestamps[i].aware # timestamps[j].aware

\* _extract_temporal_features with datetime.now() reading `now`: <<block>>,
\* or << >> where it raises.
ExtractTemporalFeatures(history, now) ==
    LET timestamps == ParsedTimestamps(history)
        days == {timestamps[i].day : i \in DOMAIN timestamps}
        time_span_days == SetMax(days) - SetMin(days)
        days_since_last == now - timestamps[Len(timestamps)].day
        weekend(ts) == ts.day % 7 >= 5
    IN  IF timestamps = << >> THEN <<ZeroVector(5)>>
        ELSE IF OrderingRaises(timestamps) THEN << >>
        ELSE <<<<Num(time_span_days),
                 Num(days_since_last),
                 <<CountIf(timestamps, weekend), Len(timestamps)>>,
                 <<Len(timestamps), Max(time_span_days, 1)>>,
                 Num(Len(timestamps))>>>>

\* The urgency score of a record, in halves: 1.0 if 'high', 0.5 if 'medium',
\* else 0.0, on r.get('urgency_level', 'low').
UrgencyScore(record) ==
    CASE Get(record, "urgency_level", "low") = "high" -> 2
      [] Get(record, "urgency_level", "low") = "medium" -> 1
      [] OTHER -> 0

\* The expertise score of a record, in halves, on
\* r.get('expertise_level', 'intermediate').
ExpertiseScore(record) ==
    CASE Get(record, "expertise_level", "intermediate") = "expert" -> 2
      [] Get(record, "expertise_level", "intermediate") = "intermediate" -> 1
      [] OTHER -> 0

\* _extract_constraint_features (history is not empty)
ExtractConstraintFeatures(history) ==
    LET budget(r) == Get(r, "has_budget_constraint", FALSE)
        time(r) == Get(r, "has_time_constraint", FALSE)
        gap(r) == Get(r, "has_knowledge_gap", FALSE)
    IN  <<<<CountIf(history, budget), Len(history)>>,
          <<CountIf(history, time), Len(history)>>,
          <<CountIf(history, gap), Len(history)>>,
          <<SumOver([i \in DOMAIN history |-> UrgencyScore(history[i])], DOMAIN history),
            2 * Len(history)>>,
          <<SumOver([i \in DOMAIN history |-> ExpertiseScore(history[i])], DOMAIN history),
            2 * Len(history)>>>>

\* get_embedding_dimension
GetEmbeddingDimension(emb) == emb.embedding_dim + 15 + 5 + 5

\* create_embedding(user_history) with the clock reading `now`: how it ends,
\* the vector it returns and the calls of the text encoder it makes.
create_embedding(emb, user_history, now) ==
    IF user_history = << >> THEN
        [outcome |-> "returned", vector |-> ZeroVector(emb.embedding_dim + 15 + 5 + 5),
         encode_calls |-> 0]
    ELSE
        LET temporal_features == ExtractTemporalFeatures(user_history, now)
        IN  IF temporal_features = << >> THEN
                [outcome |-> "TypeError: naive and aware datetimes",
                 vector |-> << >>, encode_calls |-> 1]
            ELSE
                [outcome |-> "returned",
                 vector |-> CreateIntentSequenceEmbedding(emb, user_history)
                            \o ExtractBehavioralFeatures(user_history)
                            \o temporal_features[1]
                            \o ExtractConstraintFeatures(user_history),
                 encode_calls |-> 1]

RECURSIVE BatchLoop(_, _, _)
\* The loop of create_batch_embeddings over the histories still to do: the
\* rows appended, unless create_embedding raises on the way.
BatchLoop(emb, user_histories, now) ==
    IF user_histories = << >> THEN
        [outcome |-> "returned", rows |-> << >>, encode_calls |-> 0]
    ELSE
        LET embedding == create_embedding(emb, Head(user_histories), now)
            rest == BatchLoop(emb, Tail(user_histories), now)
        IN  IF embedding.outcome # "returned" THEN
                [outcome |-> embedding.outcome, rows |-> << >>,
                 encode_calls |-> embedding.encode_calls]
            ELSE IF rest.outcome # "returned" THEN
                [outcome |-> rest.outcome, rows |-> << >>,
                 encode_calls |-> embedding.encode_calls + rest.encode_calls]
            ELSE
                [outcome |-> "returned", rows |-> <<embedding.vector>> \o rest.rows,
                 encode_calls |-> embedding.encode_calls + rest.encode_calls]

\* Mutant of create_batch_embeddings: empty histories are left out of the
\* batch.
create_batch_embeddings_nonempty(emb, user_histories, now) ==
    BatchLoop(emb, SelectSeq(user_histories, LAMBDA h : h # << >>), now)

\* create_batch_embeddings(user_histories) with the clock reading `now`.
create_batch_embeddings(emb, user_histories, now) ==
    BatchLoop(emb, user_histories, now)

----------------------------------------------------------------------------
(* create_embedding and create_batch_embeddings as functions of their      *)
(* arguments                                                               *)

\* Most histories of a batch under SpecBatch.
MaxBatchRows == 2

\* Most records of a batch under SpecBatch, all its histories together.
MaxBatchRecords == 2

\* get_sentence_embedding_dimension() of the text encoder.
EncoderDims == {2, 3}

\* __init__: the encoder's dimension.
NewEmbedder(embedding_dim) == [embedding_dim |-> embedding_dim]

\* datetime.now() at a call, in days.
ClockReadings == {7, 9}

\* The keys intent, confidence, channel and engagement_level of a record:
\* none of them, all of them, some of them.
BehaviourFields ==
    {[intent |-> << >>, confidence |-> << >>, channel |-> << >>,
      engagement_level |-> << >>],
     [intent |-> <<"Compare_Deals">>, confidence |-> <<9>>, channel |-> <<"email">>,
      engagement_level |-> <<"high">>],
     [intent |-> <<"research_category">>, confidence |-> << >>, channel |-> << >>,
      engagement_level |-> <<"low">>]}

\* The key timestamp of a record: missing, empty, not an ISO string, without
\* offset (a Tuesday, a Sunday), ending in 'Z' (a Sunday).
TimestampFields ==
    {<< >>,
     <<EmptyString>>,
     <<[form |-> "malformed", day |-> 0]>>,
     <<[form |-> "naive", day |-> 1]>>,
     <<[form |-> "naive", day |-> 6]>>,
     <<[form |-> "utc-z", day |-> 6]>>}

\* The keys urgency_level, expertise_level and has_..._constraint/gap.
ConstraintFields ==
    {[urgency_level |-> << >>, expertise_level |-> << >>,
      has_budget_constraint |-> << >>, has_time_constraint |-> << >>,
      has_knowledge_gap |-> << >>],
     [urgency_level |-> <<"high">>, expertise_level |-> <<"expert">>,
      has_budget_constraint |-> <<TRUE>>, has_time_constraint |-> <<FALSE>>,
      has_knowledge_gap |-> << >>],
     [urgency_level |-> <<"medium">>, expertise_level |-> <<"novice">>,
      has_budget_constraint |-> << >>, has_time_constraint |-> <<TRUE>>,
      has_knowledge_gap |-> <<TRUE>>]}

\* An intent record.
IntentRecord(b, timestamp, c) ==
    [intent |-> b.intent, confidence |-> b.confidence, channel |-> b.channel,
     engagement_level |-> b.engagement_level, timestamp |-> timestamp,
     urgency_level |-> c.urgency_level, expertise_level |-> c.expertise_level,
     has_budget_constraint |-> c.has_budget_constraint,
     has_time_constraint |-> c.has_time_constraint,
     has_knowledge_gap |-> c.has_knowledge_gap]

IntentRecords ==
    {IntentRecord(b, t, c) :
        b \in BehaviourFields, t \in TimestampFields, c \in ConstraintFields}

\* The histories of at most maxlen records.
HistoriesOf(records, maxlen) == UNION {[1..k -> records] : k \in 0..maxlen}

\* The record of an embedder call.
EmbedderCall(op, index, now, result) ==
    [op |-> op, index |-> index, now |-> now, outcome |-> result.outcome,
     encode_calls |-> result.encode_calls]

\* An embedder and the history handed to create_embedding.
InitCompose ==
    /\ \E embedding_dim \in EncoderDims : self = NewEmbedder(embedding_dim)
    /\ call = NoCall
    /\ everFit = FALSE
    /\ \E user_history \in HistoriesOf(IntentRecords, MaxHistory) :
        args = [user_history |-> user_history]
    /\ report = << >>
    /\ report2 = << >>

\* embedder.create_embedding(user_history)
CreateEmbedding ==
    /\ call.op = "__init__"
    /\ \E now \in ClockReadings :
        \E r \in {create_embedding(self, args.user_history, now)} :
            /\ call' = EmbedderCall("create_embedding", 0, now, r)
            /\ report' = <<r.vector>>
    /\ UNCHANGED <<self, everFit, args, report2>>

NextCompose == CreateEmbedding

\* One create_embedding call, for every history.
SpecCompose == InitCompose /\ [][NextCompose]_vars

\* The records of the batches: nothing but defaults, a timestamp without and
\* with offset, and every key present.
BatchRecords ==
    {IntentRecord(b, t, c) :
        b \in {x \in BehaviourFields : x.intent = << >>},
        t \in {<< >>, <<[form |-> "naive", day |-> 1]>>, <<[form |-> "utc-z", day |-> 6]>>},
        c \in {x \in ConstraintFields : x.urgency_level = << >>}}
    \cup {IntentRecord(b, <<[form |-> "naive", day |-> 6]>>, c) :
            b \in {x \in BehaviourFields : x.intent = <<"Compare_Deals">>},
            c \in {x \in ConstraintFields : x.urgency_level = <<"high">>}}

RECURSIVE BatchesWith(_, _)
\* The lists of `rows` histories with at most `records` records in all.
BatchesWith(rows, records) ==
    IF rows = 0 THEN {<< >>}
    ELSE UNION {{<<h>> \o b : b \in BatchesWith(rows - 1, records - Len(h))} :
                    h \in HistoriesOf(BatchRecords, records)}

\* An embedder and the list handed to create_batch_embeddings.
InitBatch ==
    /\ \E embedding_dim \in EncoderDims : self = NewEmbedder(embedding_dim)
    /\ call = NoCall
    /\ everFit = FALSE
    /\ \E rows \in 0..MaxBatchRows :
        \E user_histories \in BatchesWith(rows, MaxBatchRecords) :
            args = [user_histories |-> user_histories]
    /\ report = << >>
    /\ report2 = << >>

\* embedder.create_batch_embeddings(user_histories)
CreateBatchEmbeddings ==
    /\ report = << >>
    /\ \E now \in ClockReadings :
        \E r \in {create_batch_embeddings(self, args.user_histories, now)} :
            /\ call' = EmbedderCall("create_batch_embeddings", 0, now, r)
            /\ report' = <<[now |-> now, outcome |-> r.outcome, rows |-> r.rows]>>
    /\ UNCHANGED <<self, everFit, args, report2>>

\* embedder.create_embedding(user_histories[index])
CreateEmbeddingOfRow ==
    /\ report2 = << >>
    /\ \E i \in DOMAIN args.user_histories, now \in ClockReadings :
        \E r \in {create_embedding(self, args.user_histories[i], now)} :
            /\ call' = EmbedderCall("create_embedding", i - 1, now, r)
            /\ report2' = <<[index |-> i - 1, now |-> now, outcome |-> r.outcome,
                             vector |-> r.vector]>>
    /\ UNCHANGED <<self, everFit, args, report>>

NextBatch ==
    \/ CreateBatchEmbeddings
    \/ CreateEmbeddingOfRow

\* A batch call and a single call on one of its histories, in either order,
\* each at its own time.
SpecBatch == InitBatch /\ [][NextBatch]_vars

----------------------------------------------------------------------------
(* Properties under Spec                                                   *)

\* The last call ran discover_patterns on self: directly, or as the first
\* step of validate_cluster_stability.
DiscoveredOnSelf == call.op \in {"discover_patterns", "validate_cluster_stability"}

IsRead ==
    call.op \in {"get_cluster_statistics", "get_cluster_members", "get_cluster_label"}

AllEqual(seq, n, x) == Len(seq) = n /\ \A i \in 1..n : seq[i] = x

\* C1: a discover call with 1 <= N < min_cluster_size does not run the
\* clustering routine and yields N labels, all 0; the retained membership
\* probabilities are all 1.0 and the retained outlier scores all 0.0.
C1_DegradedMode ==
    (DiscoveredOnSelf /\ call.n >= 1 /\ call.n < self.min_cluster_size) =>
        /\ call.op = "discover_patterns" => call.outcome = "returned"
        /\ \A i \in DOMAIN call.steps : call.steps[i] # "hdbscan"
        /\ AllEqual(call.labels, call.n, 0)
        /\ AllEqual(self.cluster_labels_, call.n, 0)
        /\ AllEqual(self.probabilities_, call.n, 2)
        /\ AllEqual(self.outlier_scores_, call.n, 0)

\* C1 witness: a degraded-mode discover call on two rows has returned.
C1_Witness ==
    /\ call.op = "discover_patterns"
    /\ call.n = 2
    /\ call.n < self.min_cluster_size
    /\ call.outcome = "returned"

\* Every label is -1 or in 0..K-1, and every cluster of 0..K-1 occurs.
DenseLabels(labels) ==
    \A i \in DOMAIN labels :
        /\ labels[i] >= -1
        /\ labels[i] > 0 => \E j \in DOMAIN labels : labels[j] = labels[i] - 1

\* C2 (as claimed): every discover call on N >= 1 rows, whatever the
\* configuration and the flags, returns one label per row, the labels being
\* -1 or a gap-free range 0..K-1 (a failure inside HDBSCAN set aside).
C2_AlwaysLabels ==
    (call.op = "discover_patterns" /\ call.n >= 1 /\ call.outcome # "hdbscan error") =>
        /\ call.outcome = "returned"
        /\ Len(call.labels) = call.n
        /\ DenseLabels(call.labels)

C4_EmptyBatchRaises ==
    [][(call'.op = "discover_patterns" /\ call'.n = 0) =>
          /\ call'.outcome = "ValueError: no embeddings"
          /\ call'.steps = << >>
          /\ Snapshot(self') = Snapshot(self)]_vars

\* C4 witness: an empty batch was refused by an instance holding a snapshot
\* with a projection.
C4_Witness ==
    /\ call.op = "discover_patterns"
    /\ call.n = 0
    /\ call.outcome = "ValueError: no embeddings"
    /\ self.cluster_labels_ # None
    /\ self.visualization_coords_ # None

\* C5 (as claimed): the retained labels, probabilities, outlier scores and
\* projection all stem from the most recent discover call: they have the
\* same number of rows, and the projection is None when that call did not
\* ask for one.
C5_SnapshotOfLastCall ==
    everFit =>
        /\ Len(self.probabilities_) = Len(self.cluster_labels_)
        /\ Len(self.outlier_scores_) = Len(self.cluster_labels_)
        /\ self.visualization_coords_ # None =>
               Len(self.visualization_coords_) = Len(self.cluster_labels_)
        /\ (call.op = "discover_patterns" /\ call.outcome = "returned"
                /\ ~call.create_visualization) =>
               self.visualization_coords_ = None

----------------------------------------------------------------------------
(* Properties under SpecValidate and SpecRepeat                            *)

\* The report of the validate call and the two label arrays it compared.
Report == report[1]

Labels1 == call.labels

Labels2 == call.result

Clusters(labels) == LabelSet(labels) \ {-1}

\* Jaccard similarity of two non-noise clusters, as an exact ratio.
Similarity(c1, c2) ==
    <<Cardinality(Members(Labels1, c1) \cap Members(Labels2, c2)),
      Cardinality(Members(Labels1, c1) \cup Members(Labels2, c2))>>

\* The smallest period-2 cluster of maximal similarity with c1.
ArgMax(c1) ==
    SetMin({c2 \in Clusters(Labels2) :
               \A c \in Clusters(Labels2) : Ge(Similarity(c1, c2), Similarity(c1, c))})

\* C6 (as claimed): whenever period 2 has a non-noise cluster, the best match
\* of every period-1 cluster is the smallest period-2 cluster of maximal
\* Jaccard similarity, also when every similarity is 0, and the reported
\* overlap is that maximum.
C6_BestMatchAlways ==
    report # << >> =>
        \A c1 \in Clusters(Labels1) :
            Clusters(Labels2) # {} =>
                /\ Report.overlap_scores[c1].best_match = <<ArgMax(c1)>>
                /\ Eq(Report.overlap_scores[c1].overlap, Similarity(c1, ArgMax(c1)))

\* C6 (amended): whenever some period-2 cluster shares a member with c1, the
\* best match is the smallest period-2 cluster of maximal Jaccard similarity
\* and the overlap is that maximum; when every similarity is 0 (or period 2
\* has no cluster) the best match is None and the overlap 0.
C6_BestMatch ==
    report # << >> =>
        \A c1 \in Clusters(Labels1) :
            IF \E c2 \in Clusters(Labels2) : Gt(Similarity(c1, c2), <<0, 1>>)
            THEN /\ Report.overlap_scores[c1].best_match = <<ArgMax(c1)>>
                 /\ Eq(Report.overlap_scores[c1].overlap, Similarity(c1, ArgMax(c1)))
            ELSE /\ Report.overlap_scores[c1].best_match = << >>
                 /\ Eq(Report.overlap_scores[c1].overlap, <<0, 1>>)

\* C6 witness: a period-1 cluster with two period-2 clusters tied at the
\* maximal, positive similarity.
C6_Witness ==
    /\ report # << >>
    /\ \E c1 \in Clusters(Labels1) :
        \E c2 \in Clusters(Labels2) :
            /\ c2 # ArgMax(c1)
            /\ Gt(Similarity(c1, c2), <<0, 1>>)
            /\ Eq(Similarity(c1, c2), Similarity(c1, ArgMax(c1)))

\* C7: a period-1 cluster is flagged is_stable exactly when its overlap meets
\* or exceeds the threshold; n_stable_patterns counts the flagged clusters;
\* stability_rate is that count over the number of non-noise period-1
\* clusters and lies in [0, 1].
C7_StableFlagsAndRate ==
    report # << >> =>
        LET flagged == {c1 \in Clusters(Labels1) : Report.overlap_scores[c1].is_stable}
            n1 == Cardinality(Clusters(Labels1))
        IN  /\ DOMAIN Report.overlap_scores = Clusters(Labels1)
            /\ \A c1 \in Clusters(Labels1) :
                   Report.overlap_scores[c1].is_stable <=>
                       Ge(Report.overlap_scores[c1].overlap, args.threshold)
            /\ Report.n_stable_patterns = Cardinality(flagged)
            /\ n1 > 0 => Eq(Report.stability_rate, <<Cardinality(flagged), n1>>)
            /\ Ge(Report.stability_rate, <<0, 1>>)
            /\ Ge(<<1, 1>>, Report.stability_rate)

\* C7 witness: of two period-1 clusters one meets the threshold exactly (full
\* overlap at threshold 1) and the other does not.
C7_Witness ==
    /\ report # << >>
    /\ args.threshold = <<1, 1>>
    /\ Cardinality(Clusters(Labels1)) = 2
    /\ Report.n_stable_patterns = 1

\* C8 (as claimed): if either period has no non-noise cluster, the stability
\* rate is 0 and no period-1 cluster counts as stable, for every threshold
\* in [0, 1].
C8_EmptyPeriodRateZero ==
    (report # << >> /\ (Clusters(Labels1) = {} \/ Clusters(Labels2) = {})) =>
        /\ Eq(Report.stability_rate, <<0, 1>>)
        /\ Report.n_stable_patterns = 0
        /\ \A c1 \in Clusters(Labels1) : ~Report.overlap_scores[c1].is_stable

\* The label array with its non-noise cluster ids renamed by p.
Relabel(labels, p) ==
    [i \in DOMAIN labels |-> IF labels[i] = -1 THEN -1 ELSE p[labels[i]]]

\* C9: renaming the non-noise cluster ids of the period-2 labels by any
\* permutation leaves every period-1 cluster's overlap and is_stable flag,
\* the stable count and the stability rate unchanged.
C9_RelabelInvariant ==
    report # << >> =>
        \A p \in Permutations(Clusters(Labels2)) :
            LET renamed == StabilityReport(Labels1, Relabel(Labels2, p), args.threshold)
            IN  /\ \A c1 \in Clusters(Labels1) :
                       /\ Eq(renamed.overlap_scores[c1].overlap,
                             Report.overlap_scores[c1].overlap)
                       /\ renamed.overlap_scores[c1].is_stable
                              = Report.overlap_scores[c1].is_stable
                /\ renamed.n_stable_patterns = Report.n_stable_patterns
                /\ Eq(renamed.stability_rate, Report.stability_rate)

\* C9 witness: a report over two period-2 clusters of different overlap with
\* a period-1 cluster.
C9_Witness ==
    /\ report # << >>
    /\ \E c1 \in Clusters(Labels1) :
        \E c2 \in Clusters(Labels2), c3 \in Clusters(Labels2) :
            Gt(Similarity(c1, c2), Similarity(c1, c3))

\* C10 (as claimed): a second validate call with the same arguments on the
\* same configuration returns the same report as the first.
C10_SameReportTwice ==
    report2 # << >> => report2 = report

----------------------------------------------------------------------------
(* Statistics, failures, warnings and the HDBSCAN parameters under Spec    *)

\* a + b of two ratios
RatAdd(a, b) == <<a[1] * b[2] + b[1] * a[2], a[2] * b[2]>>

RECURSIVE SumOfPercentages(_, _)
\* The sum of the 'percentage' entries of the clusters S.
SumOfPercentages(clusters, S) ==
    IF S = {} THEN <<0, 1>>
    ELSE LET c == CHOOSE x \in S : TRUE
         IN  RatAdd(clusters[c].percentage, SumOfPercentages(clusters, S \ {c}))

\* C15 (as claimed): in the statistics of the last fit every cluster's
\* percentage is 100 * size / (number of non-noise points), so with at least
\* one cluster the percentages sum to 100, noise or not.
C15_PercentOfNonNoise ==
    (call.op = "get_cluster_statistics" /\ call.outcome = "returned"
        /\ call.result.n_clusters >= 1) =>
        LET stats == call.result
            non_noise == stats.n_total - stats.n_noise
        IN  /\ \A c \in DOMAIN stats.clusters :
                    Eq(stats.clusters[c].percentage,
                       <<100 * stats.clusters[c].size, non_noise>>)
            /\ Eq(SumOfPercentages(stats.clusters, DOMAIN stats.clusters), <<100, 1>>)

\* clusterer.fit was called and raised.
FitFailed(steps) == \E i \in DOMAIN steps : steps[i] = "hdbscan: raised"

\* The number of calls of clusterer.fit among the library calls.
FitCalls(steps) ==
    Cardinality({i \in DOMAIN steps : steps[i] \in {"hdbscan", "hdbscan: raised"}})

\* C16 (as claimed): when the clustering routine fails inside discover,
\* called directly or from validate, the caller receives a ClusteringError
\* wrapping the cause, not the library's own exception.
C16_ClusteringErrorWraps ==
    (DiscoveredOnSelf /\ (FitFailed(call.steps) \/ FitFailed(call.steps2))) =>
        call.outcome = "ClusteringError"

\* C17: no retries.  One discover call invokes the clustering routine at
\* most once, one validate call at most once per period; a failing
\* invocation is the last library call of the whole call, which ends with
\* that failure and returns nothing.
C17_NoRetries ==
    DiscoveredOnSelf =>
        /\ FitCalls(call.steps) <= 1
        /\ FitCalls(call.steps2) <= 1
        /\ FitFailed(call.steps) =>
              /\ call.steps[Len(call.steps)] = "hdbscan: raised"
              /\ call.steps2 = << >>
              /\ call.outcome = "hdbscan error"
              /\ call.labels = None /\ call.viz_coords = None /\ call.result = None
        /\ FitFailed(call.steps2) =>
              /\ call.steps2[Len(call.steps2)] = "hdbscan: raised"
              /\ call.outcome = "hdbscan error"
              /\ call.result = None

\* C17 witness: in a validate call the first period was clustered and the
\* clustering of the second period failed.
C17_Witness ==
    /\ call.op = "validate_cluster_stability"
    /\ FitCalls(call.steps) = 1 /\ ~FitFailed(call.steps)
    /\ FitFailed(call.steps2)
    /\ call.outcome = "hdbscan error"

\* C18 (as claimed): a discover call that falls back to the single cluster
\* (1 <= N < min_cluster_size) returns its result and a degraded-result
\* warning is shown to the caller.
C18_DegradedWarningShown ==
    (call.op = "discover_patterns" /\ call.n >= 1 /\ call.n < self.min_cluster_size) =>
        /\ call.outcome = "returned"
        /\ call.diagnostics # << >>

\* C19: whenever a discover call (direct, or the one validate makes on the
\* instance) invokes the clustering routine on N points, the HDBSCAN object
\* it built has min_samples = min(configured min_samples, N) >= 1 and
\* min_cluster_size = min(configured min_cluster_size, N); no call changes
\* the configured values.
C19_ClampedParameters ==
    [][/\ self'.min_cluster_size = self.min_cluster_size
       /\ self'.min_samples = self.min_samples
       /\ self'.n_components_pca = self.n_components_pca
       /\ (DiscoveredOnSelf' /\ call' # call /\ FitCalls(call'.steps) >= 1) =>
              /\ self'.clusterer.min_samples = Min(self.min_samples, call'.n)
              /\ self'.clusterer.min_samples >= 1
              /\ self'.clusterer.min_cluster_size = Min(self.min_cluster_size, call'.n)]_vars

\* C19 witness: HDBSCAN was invoked on fewer points than the configured
\* min_samples and got min_samples = N.
C19_Witness ==
    /\ call.op = "discover_patterns"
    /\ FitCalls(call.steps) = 1
    /\ call.n < self.min_samples
    /\ self.clusterer.min_samples = call.n

----------------------------------------------------------------------------
(* Properties under SpecProjection                                         *)

\* C20 (as claimed): a discover call that returns hands back a projection
\* exactly when one was requested; the projection has N rows of 2 columns
\* and is made from the standardized vectors alone, so the calls with and
\* without reduction on one batch return the same projection.
C20_ProjectionOfScaledOnly ==
    /\ (call.op = "discover_patterns" /\ call.outcome = "returned") =>
          /\ (call.viz_coords # None) = call.create_visualization
          /\ call.create_visualization =>
                /\ Len(call.viz_coords) = call.n
                /\ \A i \in DOMAIN call.viz_coords : call.viz_coords[i].columns = 2
    /\ (/\ report # << >> /\ report2 # << >>
        /\ report[1].outcome = "returned" /\ report2[1].outcome = "returned") =>
          report[1].viz_coords = report2[1].viz_coords

----------------------------------------------------------------------------
(* Properties under SpecCompose and SpecBatch                              *)

\* The vector create_embedding returned, its history and the encoder's
\* dimension.
Vector == report[1]

History == args.user_history

E == self.embedding_dim

\* C11 (as claimed): create_embedding returns a vector of E + 25 entries for
\* every history, the encoder's E entries first and the behavioral block
\* next; for the empty history the vector is all zero and the encoder is not
\* called.
C11_VectorOfEPlus25 ==
    call.op = "create_embedding" =>
        /\ call.outcome = "returned"
        /\ Len(Vector) = E + 25
        /\ IF History = << >>
           THEN /\ \A i \in DOMAIN Vector : Vector[i] = <<0, 1>>
                /\ call.encode_calls = 0
           ELSE /\ \A k \in 1..E : Vector[k].entry = k
                /\ Vector[E + 1] = <<Len(History), 1>>
                /\ Vector[E + 21][2] = Len(History)

\* The documented default of a key: the value of a record that lacks it.
Documented(record, key, default) ==
    IF record[key] = << >> THEN default ELSE record[key][1]

\* The documented scores, in halves: high/expert 1.0, medium/intermediate
\* 0.5, low/novice 0.0.
DocumentedScore(level) ==
    IF level \in {"high", "expert"} THEN 2
    ELSE IF level \in {"medium", "intermediate"} THEN 1 ELSE 0

\* C13 (as claimed): a missing key never makes create_embedding raise and
\* counts as its documented default: confidence 0.5, channel "direct",
\* engagement "medium", urgency "medium" (0.5), expertise "intermediate"
\* (0.5).
C13_DocumentedDefaults ==
    (call.op = "create_embedding" /\ History # << >>) =>
        /\ (\A i \in DOMAIN History : History[i].timestamp = << >>) =>
                call.outcome = "returned"
        /\ call.outcome = "returned" =>
            LET n == Len(History)
                sum(key, default, score(_)) ==
                    SumOver([i \in DOMAIN History |->
                                score(Documented(History[i], key, default))],
                            DOMAIN History)
                same(x) == x
                values(key, default) ==
                    {Documented(History[i], key, default) : i \in DOMAIN History}
                engaged == {i \in DOMAIN History :
                               Documented(History[i], "engagement_level", "medium")
                                   \in {"high", "very_high"}}
            IN  /\ Eq(Vector[E + 2], <<sum("confidence", 5, same), 10 * n>>)
                /\ Eq(Vector[E + 7], <<Cardinality(engaged), n>>)
                /\ Eq(Vector[E + 8], <<Cardinality(values("channel", "direct")), n>>)
                /\ Eq(Vector[E + 24], <<sum("urgency_level", "medium", DocumentedScore), 2 * n>>)
                /\ Eq(Vector[E + 25],
                      <<sum("expertise_level", "intermediate", DocumentedScore), 2 * n>>)

\* The record has a timestamp that parses.
Parseable(record) ==
    /\ record.timestamp # << >>
    /\ record.timestamp[1].form \in {"naive", "utc-z"}

\* C14 (as claimed): records whose timestamp is missing or does not parse
\* are skipped without raising, whatever the mix of records: the timestamp
\* count of the temporal block is the number of records with a parseable
\* timestamp, and with none the block is all zero.
C14_TimestampsSkipped ==
    (call.op = "create_embedding" /\ History # << >>) =>
        /\ call.outcome = "returned"
        /\ Vector[E + 20] = <<Cardinality({i \in DOMAIN History : Parseable(History[i])}), 1>>
        /\ (\A i \in DOMAIN History : ~Parseable(History[i])) =>
                \A k \in (E + 16)..(E + 20) : Vector[k] = <<0, 1>>

\* What the batch call and the single call returned.
Batch == report[1]

Single == report2[1]

\* C12 (as claimed): whenever the two calls are made, row i of
\* create_batch_embeddings(histories) equals create_embedding(histories[i])
\* entry for entry.
C12_BatchRowIsSingleAlways ==
    (/\ report # << >> /\ report2 # << >>
     /\ Batch.outcome = "returned" /\ Single.outcome = "returned") =>
        Batch.rows[Single.index + 1] = Single.vector

\* C12 (amended): the batch call returns exactly one row per history, and
\* raises if create_embedding raises on one of them; row i equals
\* create_embedding(histories[i]) in every entry but the recency entry of
\* the temporal block (days since the last timestamp), and in that one too
\* when both calls read the same time.
C12_BatchRowIsSingle ==
    (report # << >> /\ report2 # << >>) =>
        /\ Single.outcome # "returned" => Batch.outcome # "returned"
        /\ Batch.outcome = "returned" =>
            /\ Len(Batch.rows) = Len(args.user_histories)
            /\ Single.outcome = "returned"
            /\ Len(Batch.rows[Single.index + 1]) = Len(Single.vector)
            /\ \A k \in DOMAIN Single.vector :
                    (k # E + 17 \/ Batch.now = Single.now) =>
                        Batch.rows[Single.index + 1][k] = Single.vector[k]

\* C12 witness: a row with timestamps was embedded by the batch call and by
\* the single call at different times.
C12_Witness ==
    /\ report # << >> /\ report2 # << >>
    /\ Batch.outcome = "returned" /\ Single.outcome = "returned"
    /\ Batch.now # Single.now
    /\ Single.index = 1
    /\ Single.vector[E + 20] # <<0, 1>>

----------------------------------------------------------------------------
(* The snapshot next to the calls that made it                             *)

\* StandardScaler.fit_transform raises ValueError on a batch holding an
\* infinite entry; `finite` says the batch holds none.
ScalerFitRaises(finite) == ~finite

\* discover_patterns on a batch that may hold an infinite entry: past the
\* two early exits the standardization comes first, and nothing has been
\* assigned when it raises.
discover_patterns_on(obj, n, d, use_pca, create_visualization, finite, run) ==
    IF ~EmptyBatch(n) /\ ~TooFewUsers(obj, n) /\ ScalerFitRaises(finite) THEN
        [obj |-> obj, outcome |-> "ValueError: scaler",
         steps |-> <<"scaler: raised">>, labels |-> None, viz_coords |-> None]
    ELSE discover_patterns(obj, n, d, use_pca, create_visualization, run)

\* What the libraries can make of an (n, d) batch: a batch of finite numbers
\* with one of its library runs, or a batch holding an infinite entry, on
\* which HDBSCAN is never reached.
BatchRuns(obj, n, d, use_pca) ==
    {[finite |-> TRUE, run |-> run] : run \in LibraryRuns(obj, n, d, use_pca)}
    \cup {[finite |-> FALSE, run |-> NoRun]}

\* embed_dim of the batches under SpecSnapshot: the one on which the
\* reduction applies for every configuration.
SnapshotDims == {SetMax(EmbedDims)}

\* The second discover call of validate, on an instance of its own, up to
\* whether it returns or raises: one of its endings for each.
ReturnsOrRaises ==
    [cfg \in Configs |-> [d \in SnapshotDims |->
        {CHOOSE e \in SecondDiscoverEndings[cfg][d] : (e.outcome = "returned") = returns :
            returns \in {e.outcome = "returned" : e \in SecondDiscoverEndings[cfg][d]}}]]

\* History: the last discover call on the instance that returned, with the
\* number of rows it was given, the labels it returned and the fit HDBSCAN
\* handed it (NoFit in the fallback, where HDBSCAN is not run).
FitRecord(n, labels, run) == <<[n |-> n, labels |-> labels, fit |-> run.fit]>>

\* History: the statistics returned since then, and whether they were
\* returned once or more often.
StatisticsRecord(before, result) ==
    <<[stats |-> result, reads |-> IF before = << >> THEN 1 ELSE 2]>>

\* A fresh instance, nothing fitted and nothing read.
InitSnapshot ==
    /\ \E cfg \in Configs : self = NewClusterer(cfg)
    /\ call = NoCall
    /\ everFit = FALSE
    /\ args = NoArgs
    /\ report = << >>
    /\ report2 = << >>

\* clusterer.discover_patterns(embeddings, use_pca, create_visualization)
DiscoverPatterns ==
    /\ \E n \in 0..MaxFitUsers, d \in SnapshotDims, use_pca \in BOOLEAN,
          viz \in BOOLEAN :
        \E batch \in BatchRuns(self, n, d, use_pca) :
            \E run \in {batch.run} :
            \E r \in {discover_patterns_on(self, n, d, use_pca, viz, batch.finite, run)} :
                /\ self' = r.obj
                /\ call' = Call("discover_patterns", n, viz, 0, r.outcome, r.steps,
                                << >>, r.labels, r.viz_coords, None)
                /\ everFit' = (everFit \/ r.outcome = "returned")
                /\ report' = IF r.outcome = "returned" THEN << >> ELSE report
                /\ report2' = IF r.outcome = "returned"
                              THEN FitRecord(n, r.labels, run) ELSE report2
    /\ UNCHANGED args

\* clusterer.validate_cluster_stability(embeddings1, embeddings2, threshold)
ValidateClusterStability ==
    /\ \E n1 \in 0..MaxFitUsers, d \in SnapshotDims :
        \E batch \in BatchRuns(self, n1, d, TRUE) :
            \E run1 \in {batch.run} :
            \E r1 \in {discover_patterns_on(self, n1, d, TRUE, FALSE, batch.finite, run1)} :
            \E r2 \in ReturnsOrRaises[ConfigOf(TempClusterer(r1.obj))][d] :
            \E v \in {ValidateDiscovers(r1, r2)} :
                /\ self' = v.obj
                /\ call' = Call("validate_cluster_stability", n1, FALSE, 0,
                                v.outcome, v.steps, v.steps2, v.labels1,
                                None, None)
                /\ everFit' = (everFit \/ v.labels1 # None)
                /\ report' = IF v.labels1 # None THEN << >> ELSE report
                /\ report2' = IF v.labels1 # None
                              THEN FitRecord(n1, v.labels1, run1) ELSE report2
    /\ UNCHANGED args

\* Mutant of ReadStatistics: the read drops the retained projection.
ReadStatisticsDropsProjection ==
    /\ GetClusterStatisticsCall
    /\ self' = [self EXCEPT !.visualization_coords_ = None]
    /\ report' = IF call'.outcome = "returned"
                 THEN StatisticsRecord(report, call'.result) ELSE report
    /\ UNCHANGED <<everFit, args, report2>>

\* clusterer.get_cluster_statistics()
ReadStatistics ==
    /\ GetClusterStatisticsCall
    /\ report' = IF call'.outcome = "returned"
                 THEN StatisticsRecord(report, call'.result) ELSE report
    /\ UNCHANGED <<self, everFit, args, report2>>

NextSnapshot ==
    \/ DiscoverPatterns
    \/ ValidateClusterStability
    \/ ReadStatistics
    \/ GetClusterMembers
    \/ GetClusterLabel

\* The life of one instance, with the history of its fits and reads.
SpecSnapshot == InitSnapshot /\ [][NextSnapshot]_vars

----------------------------------------------------------------------------
(* Properties under SpecSnapshot                                           *)

\* The last discover call on the instance that returned, and the statistics
\* read since.
LastFit == report2[1]

LastStatistics == report[1]

\* C26: the three read methods leave the retained labels, probabilities,
\* outlier scores and projection as they are, and a statistics read returns
\* what the last statistics read returned if no discover call has returned
\* in between.
C26_ReadsArePure ==
    [][IsRead' =>
          /\ Snapshot(self') = Snapshot(self)
          /\ (/\ call'.op = "get_cluster_statistics"
              /\ call'.outcome = "returned"
              /\ report # << >>) => call'.result = LastStatistics.stats]_vars

\* C26 witness: the statistics of a fit with noise and a projection were
\* returned a second time.
C26_Witness ==
    /\ call.op = "get_cluster_statistics"
    /\ call.outcome = "returned"
    /\ report # << >>
    /\ LastStatistics.reads = 2
    /\ call.result.n_noise > 0
    /\ self.visualization_coords_ # None

\* C27: on a fitted instance of N rows, i is in get_cluster_members(c)
\* exactly when get_cluster_label(i) = c, for every index i in [0, N) and
\* every label c; the member sets of the labels present (-1 included) are
\* pairwise disjoint and their union is {0..N-1}; what the two lookups
\* return agrees with that.
C27_MembersAndLabelAgree ==
    ~NotFitted(self) =>
        LET N == Len(self.cluster_labels_)
            present == LabelSet(self.cluster_labels_)
        IN  /\ \A i \in 0..(N - 1), c \in -1..N :
                  (i \in get_cluster_members(self, c)) <=> (get_cluster_label(self, i) = c)
            /\ \A c1 \in present, c2 \in present :
                  c1 # c2 => get_cluster_members(self, c1) \cap get_cluster_members(self, c2) = {}
            /\ UNION {get_cluster_members(self, c) : c \in present} = 0..(N - 1)
            /\ (call.op = "get_cluster_members" /\ call.outcome = "returned") =>
                  call.result = {i \in 0..(N - 1) : get_cluster_label(self, i) = call.arg}
            /\ (call.op = "get_cluster_label" /\ call.outcome = "returned") =>
                  call.arg \in get_cluster_members(self, call.result)

\* C27 witness: the label lookup returned noise for a row of a fit that has
\* a cluster too.
C27_Witness ==
    /\ call.op = "get_cluster_label"
    /\ call.outcome = "returned"
    /\ call.result = -1
    /\ 0 \in LabelSet(self.cluster_labels_)

\* C28: in every statistics result n_total is the N of the last discover
\* call on the instance that returned, n_noise plus the per-cluster sizes is
\* n_total, n_clusters is the number of per-cluster entries, every listed
\* cluster has at least one member, and min <= mean (cohesion) <= max of the
\* membership probabilities of each cluster.
C28_StatisticsAddUp ==
    (call.op = "get_cluster_statistics" /\ call.outcome = "returned") =>
        LET stats == call.result
            sizes == [c \in DOMAIN stats.clusters |-> stats.clusters[c].size]
        IN  /\ report2 # << >>
            /\ stats.n_total = LastFit.n
            /\ stats.n_noise + SumOver(sizes, DOMAIN sizes) = stats.n_total
            /\ stats.n_clusters = Cardinality(DOMAIN stats.clusters)
            /\ \A c \in DOMAIN stats.clusters :
                  /\ stats.clusters[c].size >= 1
                  /\ Ge(stats.clusters[c].avg_membership_probability,
                        <<stats.clusters[c].min_membership_probability, 1>>)
                  /\ Ge(<<stats.clusters[c].max_membership_probability, 1>>,
                        stats.clusters[c].avg_membership_probability)
                  /\ stats.clusters[c].cohesion = stats.clusters[c].avg_membership_probability

\* C28 witness: statistics of a fit with noise and a cluster whose mean
\* membership probability lies strictly between its min and its max.
C28_Witness ==
    /\ call.op = "get_cluster_statistics"
    /\ call.outcome = "returned"
    /\ \E c \in DOMAIN call.result.clusters :
          /\ Gt(call.result.clusters[c].avg_membership_probability,
                <<call.result.clusters[c].min_membership_probability, 1>>)
          /\ Gt(<<call.result.clusters[c].max_membership_probability, 1>>,
                call.result.clusters[c].avg_membership_probability)

\* A validate call has returned in this step.
ValidateReturned ==
    call'.op = "validate_cluster_stability" /\ call'.outcome = "returned"

\* The instance retains the labels, probabilities and outlier scores of the
\* period-1 clustering (those of the fallback where the period has fewer
\* rows than min_cluster_size), on an HDBSCAN object built for that period,
\* and its configuration is as before.
RetainsPeriodOne ==
    /\ ConfigOf(self') = ConfigOf(self)
    /\ self'.cluster_labels_ = call'.labels
    /\ Len(self'.cluster_labels_) = call'.n
    /\ report2' = <<[n |-> call'.n, labels |-> call'.labels, fit |-> report2'[1].fit]>>
    /\ IF call'.n < self.min_cluster_size
       THEN /\ AllEqual(self'.cluster_labels_, call'.n, 0)
            /\ AllEqual(self'.probabilities_, call'.n, 2)
            /\ AllEqual(self'.outlier_scores_, call'.n, 0)
            /\ self'.clusterer = self.clusterer
       ELSE /\ self'.cluster_labels_ = report2'[1].fit.labels_
            /\ self'.probabilities_ = report2'[1].fit.probabilities_
            /\ self'.outlier_scores_ = report2'[1].fit.outlier_scores_
            /\ self'.clusterer.min_cluster_size = Min(self.min_cluster_size, call'.n)

\* C29 (as claimed): after validate returns, the instance retains the
\* labels, probabilities and outlier scores of the period-1 clustering,
\* whatever it held before, and its projection and configuration are as they
\* were before the call.
C29_ValidateKeepsProjection ==
    [][ValidateReturned =>
          /\ RetainsPeriodOne
          /\ self'.visualization_coords_ = self.visualization_coords_]_vars

\* C29 (amended): as above, but the projection is as it was before the call
\* only when period 1 has at least min_cluster_size rows; with fewer rows the
\* fallback of the first discover call sets it to None.
C29_ValidateEffect ==
    [][ValidateReturned =>
          /\ RetainsPeriodOne
          /\ self'.visualization_coords_ =
                IF call'.n < self.min_cluster_size THEN None
                ELSE self.visualization_coords_]_vars

\* C29 witness: validate has returned on an instance that keeps the
\* projection of an earlier discover call on a batch of another size.
C29_Witness ==
    /\ call.op = "validate_cluster_stability"
    /\ call.outcome = "returned"
    /\ self.visualization_coords_ # None
    /\ Len(self.visualization_coords_) # Len(self.cluster_labels_)

\* The discover call on the instance (direct, or the first of validate)
\* raised in the standardization, the reduction or the clustering routine.
DiscoverFailed(c) ==
    /\ c.op \in {"discover_patterns", "validate_cluster_stability"}
    /\ c.labels = None
    /\ c.outcome \in {"ValueError: scaler", "ValueError: pca n_components",
                      "hdbscan error"}

\* The statistics read reflects the last fit that succeeded, or raises
\* not-fitted if there was none.
StatisticsOfLastFit ==
    call.op = "get_cluster_statistics" =>
        IF report2 = << >> THEN call.outcome = "ValueError: not fitted"
        ELSE /\ call.outcome = "returned"
             /\ call.result.n_total = LastFit.n
             /\ DOMAIN call.result.clusters = LabelSet(LastFit.labels) \ {-1}
             /\ \A c \in DOMAIN call.result.clusters :
                   call.result.clusters[c].size = Cardinality(Members(LastFit.labels, c))

\* The retained labels, probabilities and outlier scores are those of one
\* and the same fit, the last that succeeded.
SnapshotOfOneFit ==
    IF report2 = << >> THEN Snapshot(self) = <<None, None, None, None>>
    ELSE /\ self.cluster_labels_ = LastFit.labels
         /\ IF LastFit.fit = NoFit
            THEN /\ AllEqual(self.probabilities_, LastFit.n, 2)
                 /\ AllEqual(self.outlier_scores_, LastFit.n, 0)
            ELSE /\ self.probabilities_ = LastFit.fit.probabilities_
                 /\ self.outlier_scores_ = LastFit.fit.outlier_scores_

\* C30: a discover call in which the standardization, the reduction or the
\* clustering routine raises leaves the retained labels, probabilities,
\* outlier scores and projection exactly as they were; a statistics read
\* reflects the last fit that succeeded, or raises not-fitted if there was
\* none; the retained arrays are never those of two different fits.
C30_FailedDiscoverKeepsSnapshot ==
    [][/\ DiscoverFailed(call') => Snapshot(self') = Snapshot(self)
       /\ StatisticsOfLastFit'
       /\ SnapshotOfOneFit']_vars

\* C30 witness: the clustering routine raised in a discover call on an
\* instance that holds a fit with a projection, whose statistics were read.
C30_Witness ==
    /\ call.op = "discover_patterns"
    /\ call.outcome = "hdbscan error"
    /\ self.visualization_coords_ # None
    /\ report # << >>

----------------------------------------------------------------------------
(* Two PatternClusterer instances in one interpreter                       *)
(*                                                                         *)
(* Each instance has its own attributes (__init__ assigns them on self,    *)
(* and builds its own StandardScaler, PCA and HDBSCAN objects).  What the  *)
(* instances have in common is the interpreter: neither self.pca nor       *)
(* pca_2d is given a random_state, so where sklearn picks the randomized   *)
(* solver every PCA fit of either instance draws from numpy's one global   *)
(* generator and moves it on.  Next to the two instances the model keeps,  *)
(* as history, what each of them would be had only its own calls been made *)
(* (from the same seed), and what the last call would have returned then.  *)

\* Largest batch (rows) under SpecPair.
MaxPairUsers == 2

\* Most PCA fits by the randomized solver in a behaviour of SpecPair.
MaxDraws == 2

\* The number of draws a discover call that ended as r took from the global
\* generator: one for each PCA fit by the randomized solver that went through
\* (the fit of self.pca raises before it draws when n_components is too
\* large).
Draws(r, svd_solver) ==
    IF svd_solver # "randomized" THEN 0
    ELSE Cardinality({i \in DOMAIN r.steps :
                         \/ r.steps[i] = "pca2d"
                         \/ /\ r.steps[i] = "pca"
                            /\ r.outcome # "ValueError: pca n_components"})

\* Two fresh instances, the solver sklearn picks for the batches, the global
\* generator freshly seeded.
InitPair ==
    /\ \E cfg1 \in Configs, cfg2 \in Configs :
        /\ self = <<NewClusterer(cfg1), NewClusterer(cfg2)>>
        /\ report = <<[obj |-> NewClusterer(cfg1), rng |-> 0],
                      [obj |-> NewClusterer(cfg2), rng |-> 0]>>
    /\ \E solver \in {"full", "randomized"} : args = [rng |-> 0, svd_solver |-> solver]
    /\ call = NoCall
    /\ everFit = FALSE
    /\ report2 = << >>

\* What a call returned.
Returned(outcome, labels, viz_coords) ==
    [outcome |-> outcome, labels |-> labels, viz_coords |-> viz_coords]

\* instance i .discover_patterns(embeddings, use_pca, create_visualization),
\* and the same call on the instance used alone.
DiscoverOnInstance ==
    \E i \in 1..2, n \in 0..MaxPairUsers, d \in SnapshotDims,
       use_pca \in BOOLEAN, viz \in BOOLEAN :
        \E run \in LibraryRuns(self[i], n, d, use_pca) :
            \E r \in {WithProjection(discover_patterns(self[i], n, d, use_pca, viz, run),
                                     args.svd_solver, args.rng)},
               alone \in {WithProjection(discover_patterns(report[i].obj, n, d, use_pca,
                                                           viz, run),
                                         args.svd_solver, report[i].rng)} :
                /\ args.rng + Draws(r, args.svd_solver) <= MaxDraws
                /\ self' = [self EXCEPT ![i] = r.obj]
                /\ args' = [args EXCEPT !.rng = @ + Draws(r, args.svd_solver)]
                /\ call' = Call("discover_patterns", n, viz, i, r.outcome, r.steps,
                                << >>, r.labels, r.viz_coords, None)
                /\ report' = [report EXCEPT ![i] =
                                 [obj |-> alone.obj,
                                  rng |-> @.rng + Draws(alone, args.svd_solver)]]
                /\ report2' = <<Returned(alone.outcome, alone.labels, alone.viz_coords)>>
                /\ UNCHANGED everFit

\* instance i .validate_cluster_stability(embeddings1, embeddings2,
\* threshold), and the same call on the instance used alone.
ValidateOnInstance ==
    \E i \in 1..2, n1 \in 0..MaxPairUsers, d \in SnapshotDims :
        \E run1 \in LibraryRuns(self[i], n1, d, TRUE) :
            \E r1 \in {discover_patterns(self[i], n1, d, TRUE, FALSE, run1)},
               a1 \in {discover_patterns(report[i].obj, n1, d, TRUE, FALSE, run1)} :
            \E r2 \in SecondDiscoverEndings[ConfigOf(TempClusterer(r1.obj))][d] :
            \E v \in {ValidateDiscovers(r1, r2)}, alone \in {ValidateDiscovers(a1, r2)} :
            \E draws \in {Draws(r1, args.svd_solver)
                          + (IF r1.outcome = "returned"
                             THEN Draws(r2, args.svd_solver) ELSE 0)} :
                /\ args.rng + draws <= MaxDraws
                /\ self' = [self EXCEPT ![i] = v.obj]
                /\ args' = [args EXCEPT !.rng = @ + draws]
                /\ call' = Call("validate_cluster_stability", n1, FALSE, i,
                                v.outcome, v.steps, v.steps2, v.labels1, None, None)
                /\ report' = [report EXCEPT ![i] =
                                 [obj |-> alone.obj, rng |-> @.rng + draws]]
                /\ report2' = <<Returned(alone.outcome, alone.labels1, None)>>
                /\ UNCHANGED everFit

\* instance i .get_cluster_statistics(), and the same call on the instance
\* used alone.
ReadOnInstance ==
    \E i \in 1..2 :
        /\ call' = IF NotFitted(self[i])
                   THEN Call("get_cluster_statistics", 0, FALSE, i,
                             "ValueError: not fitted", << >>, << >>, None, None, None)
                   ELSE Call("get_cluster_statistics", 0, FALSE, i, "returned",
                             << >>, << >>, None, None, get_cluster_statistics(self[i]))
        /\ report2' = IF NotFitted(report[i].obj)
                      THEN <<Returned("ValueError: not fitted", None, None)>>
                      ELSE <<Returned("returned", None, None)>>
        /\ UNCHANGED <<self, everFit, args, report>>

NextPair ==
    \/ DiscoverOnInstance
    \/ ValidateOnInstance
    \/ ReadOnInstance

\* Any interleaving of calls on two instances.
SpecPair == InitPair /\ [][NextPair]_vars

\* C21 (as claimed): in every interleaving of discover, validate and read
\* calls on two instances, what each call returns and what each instance
\* retains (labels, probabilities, outlier scores, projection) are what the
\* same calls give when the instance is used alone.
C21_InstancesIndependent ==
    /\ \A i \in 1..2 : Snapshot(self[i]) = Snapshot(report[i].obj)
    /\ report2 # << >> =>
          /\ call.outcome = report2[1].outcome
          /\ call.labels = report2[1].labels
          /\ call.viz_coords = report2[1].viz_coords

----------------------------------------------------------------------------
(* AudienceManager: the registry of audience connectors                    *)
(* (src/activation/audiences/audience_manager.py).                         *)
(*                                                                         *)
(* Under SpecAudience the variables hold: self the manager (its            *)
(* _connectors dict, a function from the registered names to connector     *)
(* objects), report the connector objects (dry_run, the number of times    *)
(* sync ran on each), report2 the register calls made so far, in order,    *)
(* call the last call on the manager.                                      *)

\* Most register calls in a behaviour of SpecAudience.
MaxRegisters == 3

\* Most sync calls that reach one connector in a behaviour of SpecAudience.
MaxSyncs == 1

\* The cohorts a caller may pass, by their number of identifiers.
CohortSizes == {0, 1}

\* The connector objects a caller may register: two Google Ads connectors
\* (one built for dry runs, one with a configured client), a Meta connector,
\* and a subclass of AudienceConnector that keeps the inherited
\* component_name and has no dry_run attribute.
ConnectorObjects ==
    << [component_name |-> "google_ads", has_dry_run |-> TRUE,
        dry_run |-> TRUE, client |-> FALSE],
       [component_name |-> "google_ads", has_dry_run |-> TRUE,
        dry_run |-> FALSE, client |-> TRUE],
       [component_name |-> "meta_ads", has_dry_run |-> TRUE,
        dry_run |-> TRUE, client |-> FALSE],
       [component_name |-> "audience_connector", has_dry_run |-> FALSE,
        dry_run |-> FALSE, client |-> TRUE] >>

ConnectorIds == DOMAIN ConnectorObjects

\* The channel names a caller may ask for: the names connectors carry, a name
\* that differs from one only in case, and a name no connector carries.
ChannelNames ==
    {ConnectorObjects[c].component_name : c \in ConnectorIds}
        \cup {"Google_Ads", "tiktok_ads"}

\* register, first-wins variant: a name already in the registry keeps its
\* connector.
register_setdefault(connectors, c) ==
    [k \in DOMAIN connectors \cup {ConnectorObjects[c].component_name} |->
        IF k \in DOMAIN connectors THEN connectors[k] ELSE c]

\* register (23-24): self._connectors[connector.component_name] = connector.
register(connectors, c) ==
    [k \in DOMAIN connectors \cup {ConnectorObjects[c].component_name} |->
        IF k = ConnectorObjects[c].component_name THEN c ELSE connectors[k]]

\* get (26-29): raises when the channel is no key of the dict, else returns
\* the connector stored under it.  connector 0 stands for "none returned".
get(connectors, channel) ==
    IF channel \notin DOMAIN connectors
    THEN [outcome |-> "ActivationError: no connector", connector |-> 0]
    ELSE [outcome |-> "returned", connector |-> connectors[channel]]

\* A connector's own sync (google_ads.py 83-113, meta_ads.py 63-90): a cohort
\* without identifiers raises; a dry run returns a simulated upload; a live
\* run needs the configured client.
ConnectorSync(c, dry_run, cohort) ==
    IF ~ConnectorObjects[c].has_dry_run THEN "returned: synced"
    ELSE IF cohort = 0 THEN "ActivationError: no identifiers"
    ELSE IF dry_run THEN "returned: simulated_upload"
    ELSE IF ~ConnectorObjects[c].client THEN "ActivationError: not configured"
    ELSE "returned: uploaded"

\* sync (39-42) on the connector objects: the dry_run override lands on the
\* connector found, and that connector's sync runs once.
SyncOn(connectors_state, c, dry_run) ==
    [connectors_state EXCEPT
        ![c] = [dry_run |-> IF dry_run # "None" /\ ConnectorObjects[c].has_dry_run
                            THEN dry_run = "True" ELSE @.dry_run,
                syncs |-> @.syncs + 1]]

\* The manager after AudienceManager() and the connectors after their
\* constructors.
InitAudience ==
    /\ self = [_connectors |-> << >>]
    /\ report = [c \in ConnectorIds |->
                    [dry_run |-> ConnectorObjects[c].dry_run, syncs |-> 0]]
    /\ report2 = << >>
    /\ call = [op |-> "none", channel |-> "", outcome |-> "none", connector |-> 0]
    /\ everFit = FALSE
    /\ args = << >>

\* manager.register(connector)
RegisterConnector ==
    \E c \in ConnectorIds :
        /\ Len(report2) < MaxRegisters
        /\ self' = [_connectors |-> register(self._connectors, c)]
        /\ report2' = Append(report2, c)
        /\ call' = [op |-> "register",
                    channel |-> ConnectorObjects[c].component_name,
                    outcome |-> "returned", connector |-> c]
        /\ UNCHANGED <<report, everFit, args>>

\* manager.get(channel)
GetConnector ==
    \E channel \in ChannelNames :
        \E g \in {get(self._connectors, channel)} :
            /\ call' = [op |-> "get", channel |-> channel,
                        outcome |-> g.outcome, connector |-> g.connector]
            /\ UNCHANGED <<self, report, report2, everFit, args>>

\* manager.sync(channel, cohort, context, dry_run=...)
SyncCohort ==
    \E channel \in ChannelNames, cohort \in CohortSizes,
       dry_run \in {"None", "True", "False"} :
        \E g \in {get(self._connectors, channel)} :
            IF g.outcome # "returned"
            THEN /\ call' = [op |-> "sync", channel |-> channel,
                             outcome |-> g.outcome, connector |-> 0]
                 /\ UNCHANGED <<self, report, report2, everFit, args>>
            ELSE /\ report[g.connector].syncs < MaxSyncs
                 /\ report' = SyncOn(report, g.connector, dry_run)
                 /\ call' = [op |-> "sync", channel |-> channel,
                             outcome |-> ConnectorSync(g.connector,
                                            report'[g.connector].dry_run, cohort),
                             connector |-> g.connector]
                 /\ UNCHANGED <<self, report2, everFit, args>>

NextAudience ==
    \/ RegisterConnector
    \/ GetConnector
    \/ SyncCohort

SpecAudience == InitAudience /\ [][NextAudience]_vars

----------------------------------------------------------------------------
(* Properties under SpecAudience                                           *)

\* The register calls made so far that carried this channel name, in order.
RegisteredUnder(channel) ==
    SelectSeq(report2, LAMBDA c : ConnectorObjects[c].component_name = channel)

\* C23: after any register calls, get and sync for a channel name that no
\* registered connector carries raise ActivationError, run no connector's
\* sync and leave the registry as it was; for a name some registered connector
\* carries they reach the connector registered last under that name (sync
\* runs that connector's sync once and no other's).
C23_LookupDispatch ==
    [][call'.op \in {"get", "sync"} =>
          \E under \in {RegisteredUnder(call'.channel)} :
              IF under = << >>
              THEN /\ call'.outcome = "ActivationError: no connector"
                   /\ report' = report
                   /\ self' = self
              ELSE /\ call'.connector = under[Len(under)]
                   /\ call'.outcome # "ActivationError: no connector"
                   /\ self' = self
                   /\ \A c \in ConnectorIds :
                          report'[c].syncs = report[c].syncs +
                              (IF call'.op = "sync" /\ c = under[Len(under)]
                               THEN 1 ELSE 0)]_vars

\* A sync for a name nobody carries has raised, on a manager where a name was
\* registered twice and the connector registered last under it has been synced.
C23_Witness ==
    /\ call.op = "sync"
    /\ call.outcome = "ActivationError: no connector"
    /\ call.channel = "Google_Ads"
    /\ Len(RegisteredUnder("google_ads")) >= 2
    /\ report[self._connectors["google_ads"]].syncs > 0

----------------------------------------------------------------------------
(* PatternAnalyzer: personas for the discovered clusters                   *)
(* (src/patterns/analyzer.py).                                             *)
(*                                                                         *)
(* Under SpecAnalyze the variables hold: self the analyzer with its        *)
(* language service (what the service does when called, and how often it   *)
(* has been called), args the label array and the user histories handed    *)
(* in, call the last call and what it returned, report the number of       *)
(* service calls made before the last call.  A user history is seen        *)
(* through its number of sessions.  The text of a response is a sequence   *)
(* of lines, a line a sequence of tokens: "fence" the markdown fence, "w" a *)
(* word of prose, "{" "}" "," the JSON punctuation, "m" the member         *)
(* "persona_name": "X".                                                    *)

\* Most rows of the label array under SpecAnalyze.
MaxAnalyzeUsers == 3

\* Most lines of a response of the language service.
MaxResponseLines == 3

\* Most calls of the language service in a behaviour of SpecAnalyze.
MaxLLMCalls == 3

\* The labels of a label array: noise and three clusters.
ClusterIds == {-1, 0, 1, 2}

\* The histories of a batch of n users, by their numbers of sessions: one
\* session each, or one session for every other user and none for the rest.
HistoryBatches(n) == {[i \in 1..n |-> 1], [i \in 1..n |-> i % 2]}

ResponseLines ==
    { << >>, <<"fence">>, <<"w">>, <<"{">>, <<"}">>, <<"m">>, <<"m", ",">>,
      <<"{", "}">>, <<"{", "m", "}">>, <<"{", "m", ",", "}">> }

Responses == UNION {[1..k -> ResponseLines] : k \in 0..MaxResponseLines}

\* A response that is a JSON object, one with a trailing comma inside a
\* markdown block, one that is prose, one whose trailing comma sits on the
\* line before the closing brace.
FewResponses ==
    { << <<"{", "m", "}">> >>,
      << <<"fence">>, <<"{", "m", ",", "}">>, <<"fence">> >>,
      << <<"w">> >>,
      << <<"{">>, <<"m", ",">>, <<"}">> >> }

RECURSIVE StripLeft(_)
\* str.lstrip() on the lines of a text: blank lines at the start go.
StripLeft(lines) ==
    IF lines # << >> /\ lines[1] = << >> THEN StripLeft(Tail(lines)) ELSE lines

RECURSIVE StripRight(_)
StripRight(lines) ==
    IF lines # << >> /\ lines[Len(lines)] = << >>
    THEN StripRight(SubSeq(lines, 1, Len(lines) - 1))
    ELSE lines

\* response.strip() (321)
Strip(lines) == StripRight(StripLeft(lines))

\* line.strip().startswith(token)
LineStartsWith(line, tokens) == line # << >> /\ line[1] \in tokens

RECURSIVE JsonLines(_, _)
\* The loop over the lines of a fenced response (330-335): a fence line
\* toggles in_code_block and is dropped; a line is kept inside a block, or
\* when it starts with '{' or '"'.
JsonLines(lines, in_code_block) ==
    IF lines = << >> THEN << >>
    ELSE IF LineStartsWith(lines[1], {"fence"})
         THEN JsonLines(Tail(lines), ~in_code_block)
         ELSE IF in_code_block \/ LineStartsWith(lines[1], {"{", "m"})
              THEN <<lines[1]>> \o JsonLines(Tail(lines), in_code_block)
              ELSE JsonLines(Tail(lines), in_code_block)

RECURSIVE JoinLines(_)
\* '\n'.join(lines), as one sequence of tokens
JoinLines(lines) ==
    IF lines = << >> THEN << >>
    ELSE IF Len(lines) = 1 THEN lines[1]
    ELSE lines[1] \o <<"\n">> \o JoinLines(Tail(lines))

\* str.find / str.rfind of a one-token string; -1 when absent (0-based).
Find(text, token) ==
    IF \E i \in DOMAIN text : text[i] = token
    THEN SetMin({i \in DOMAIN text : text[i] = token}) - 1
    ELSE -1

RFind(text, token) ==
    IF \E i \in DOMAIN text : text[i] = token
    THEN SetMax({i \in DOMAIN text : text[i] = token}) - 1
    ELSE -1

\* The text without its whitespace between tokens.
WithoutWhitespace(text) == SelectSeq(text, LAMBDA t : t # "\n")

\* json.loads succeeds on the text: it is `{}` or `{ m , m , ... m }`.
JsonLoads(text) ==
    \E j \in {WithoutWhitespace(text)} :
        /\ Len(j) >= 2
        /\ j[1] = "{"
        /\ j[Len(j)] = "}"
        /\ \/ Len(j) = 2
           \/ /\ Len(j) % 2 = 1
              /\ \A i \in 2..(Len(j) - 1) :
                    j[i] = (IF i % 2 = 0 THEN "m" ELSE ",")

RECURSIVE ReplaceCommaBrace(_)
\* json_str.replace(',}', '}') (354): a comma directly before a closing brace
\* goes, left to right, without rescanning.
ReplaceCommaBrace(text) ==
    IF Len(text) < 2 THEN text
    ELSE IF text[1] = "," /\ text[2] = "}"
         THEN <<"}">> \o ReplaceCommaBrace(SubSeq(text, 3, Len(text)))
         ELSE <<text[1]>> \o ReplaceCommaBrace(Tail(text))

\* _validate_persona (364-395) on the object read from the text: a missing
\* persona_name becomes 'Unknown Persona', the two numbers default to 1.0
\* and 0.0.
ValidatePersona(json) ==
    [persona_name |-> IF \E i \in DOMAIN json : json[i] = "m"
                      THEN "X" ELSE "Unknown Persona",
     estimated_ltv_multiplier |-> <<1, 1>>,
     recommended_bid_modifier |-> <<0, 1>>,
     motivations |-> "from response"]

\* _parse_persona_response (314-362): the persona read from the response, or
\* None.
ParsePersonaResponse(response) ==
    LET clean == Strip(response)
        text == IF clean # << >> /\ LineStartsWith(clean[1], {"fence"})
                THEN JoinLines(JsonLines(clean, FALSE))
                ELSE JoinLines(clean)
        start_idx == Find(text, "{")
        end_idx == RFind(text, "}") + 1
        json_str == SubSeq(text, start_idx + 1, end_idx)
    IN  IF start_idx # -1 /\ end_idx > start_idx
        THEN IF JsonLoads(json_str) THEN ValidatePersona(json_str)
             ELSE IF JsonLoads(ReplaceCommaBrace(json_str))
                  THEN ValidatePersona(ReplaceCommaBrace(json_str))
                  ELSE None
        ELSE None

\* f'Pattern {cluster_id} Users'
PatternName(cluster_id) == "Pattern " \o ToString(cluster_id) \o " Users"

\* _create_fallback_persona (397-427)
CreateFallbackPersona(cluster_id) ==
    [persona_name |-> PatternName(cluster_id),
     estimated_ltv_multiplier |-> <<1, 1>>,
     recommended_bid_modifier |-> <<0, 1>>,
     motivations |-> "Analysis required"]

\* _generate_persona_with_llm without its except clause: a failure of the
\* service, or of persona.get on None, leaves the method as an exception.
GeneratePersonaUnguarded(llm, cluster_id) ==
    IF llm.raises
    THEN [outcome |-> "RuntimeError", persona |-> None, llm_calls |-> 1]
    ELSE IF ParsePersonaResponse(llm.response) = None
         THEN [outcome |-> "AttributeError", persona |-> None, llm_calls |-> 1]
         ELSE [outcome |-> "returned",
               persona |-> ParsePersonaResponse(llm.response), llm_calls |-> 1]

\* _generate_persona_with_llm (170-204): one generate_sync call; when it
\* raises, or when the parser returned None and persona.get raises
\* AttributeError (198), the except clause returns the fallback persona.
GeneratePersonaWithLLM(llm, cluster_id) ==
    IF llm.raises
    THEN [outcome |-> "returned", persona |-> CreateFallbackPersona(cluster_id),
          llm_calls |-> 1]
    ELSE IF ParsePersonaResponse(llm.response) = None
         THEN [outcome |-> "returned",
               persona |-> CreateFallbackPersona(cluster_id), llm_calls |-> 1]
         ELSE [outcome |-> "returned",
               persona |-> ParsePersonaResponse(llm.response), llm_calls |-> 1]

\* _extract_cluster_statistics (87-168), the journey part: histories is the
\* list of the cluster's histories.
ExtractClusterStatistics(histories) ==
    [total_sessions |-> SumOver(histories, DOMAIN histories),
     min_journey_length |-> IF histories = << >> THEN 0
                            ELSE SetMin({histories[i] : i \in DOMAIN histories}),
     max_journey_length |-> IF histories = << >> THEN 0
                            ELSE SetMax({histories[i] : i \in DOMAIN histories})]

\* analyze_cluster (39-85)
AnalyzeCluster(llm, cluster_id, user_histories, cluster_size_total) ==
    \* the bound name keeps GeneratePersonaWithLLM evaluated once
    LET g == GeneratePersonaWithLLM(llm, cluster_id)
    IN  [outcome |-> g.outcome,
         llm_calls |-> g.llm_calls,
         entry |-> IF g.outcome # "returned" THEN None
                   ELSE [cluster_id |-> cluster_id,
                         size |-> Len(user_histories),
                         percentage |-> IF cluster_size_total > 0
                                        THEN <<Len(user_histories) * 100,
                                               cluster_size_total>>
                                        ELSE <<0, 1>>,
                         statistics |-> ExtractClusterStatistics(user_histories),
                         persona |-> g.persona]]

\* The rows (1-based) that carry the label: `cluster_labels == label`.
ClusterMask(cluster_labels, label) ==
    SelectSeq([i \in DOMAIN cluster_labels |-> i],
              LAMBDA i : cluster_labels[i] = label)

\* [user_histories[i] for i, mask in enumerate(cluster_mask) if mask]
ClusterHistories(cluster_labels, user_histories, label) ==
    [k \in DOMAIN ClusterMask(cluster_labels, label) |->
        user_histories[ClusterMask(cluster_labels, label)[k]]]

RECURSIVE FirstSeen(_)
\* The non-noise labels in the order they first occur in the array.
FirstSeen(cluster_labels) ==
    IF cluster_labels = << >> THEN << >>
    ELSE LET rest == FirstSeen(SubSeq(cluster_labels, 1, Len(cluster_labels) - 1))
             last == cluster_labels[Len(cluster_labels)]
         IN  IF last = -1 \/ \E i \in DOMAIN rest : rest[i] = last
             THEN rest ELSE Append(rest, last)

\* set(cluster_labels) minus -1, then sorted(unique_labels) (445-446, 453)
SortedUniqueLabels(cluster_labels) ==
    Ascending({cluster_labels[i] : i \in DOMAIN cluster_labels} \ {-1})

RECURSIVE AnalyzeLoop(_, _, _, _)
\* `for label in sorted(unique_labels)` (453-466): one analyze_cluster per
\* label, its entry appended to personas.
AnalyzeLoop(llm, labels, cluster_labels, user_histories) ==
    IF labels = << >> THEN << >>
    ELSE <<AnalyzeCluster(llm, labels[1],
                ClusterHistories(cluster_labels, user_histories, labels[1]),
                Cardinality({i \in DOMAIN cluster_labels :
                                cluster_labels[i] # -1})).entry>>
         \o AnalyzeLoop(llm, Tail(labels), cluster_labels, user_histories)

\* analyze_all_clusters (429-468)
AnalyzeAllClusters(llm, cluster_labels, user_histories) ==
    AnalyzeLoop(llm, SortedUniqueLabels(cluster_labels), cluster_labels,
                user_histories)

LabelArrays == UNION {[1..n -> ClusterIds] : n \in 0..MaxAnalyzeUsers}

\* What the language service does when called: it raises, or it returns
\* this response.
ServiceRaises == [raises |-> TRUE, response |-> << >>]

ServiceReturns(response) == [raises |-> FALSE, response |-> response]

\* The analyzer after construction with a language service, and the batch a
\* caller holds: every label array with a few services, and a few label
\* arrays with every response.
InitAnalyze ==
    /\ \/ \E cluster_labels \in LabelArrays :
          \E user_histories \in HistoryBatches(Len(cluster_labels)) :
          \E llm \in {ServiceRaises} \cup {ServiceReturns(r) : r \in FewResponses} :
              /\ args = [cluster_labels |-> cluster_labels,
                         user_histories |-> user_histories]
              /\ self = [llm |-> llm, llm_calls |-> 0]
       \/ \E cluster_labels \in {<<2, -1>>} :
          \E response \in Responses :
              /\ args = [cluster_labels |-> cluster_labels,
                         user_histories |-> [i \in DOMAIN cluster_labels |-> 1]]
              /\ self = [llm |-> ServiceReturns(response), llm_calls |-> 0]
    /\ call = [op |-> "none", cluster_id |-> -1, outcome |-> "none",
               result |-> << >>]
    /\ report = 0
    /\ report2 = << >>
    /\ everFit = FALSE

\* analyzer.analyze_cluster(cluster_id, user_histories, cluster_size_total)
AnalyzeClusterCall ==
    \E cluster_id \in ClusterIds \ {-1},
       cluster_size_total \in {0, Len(args.user_histories)} :
        \E r \in {AnalyzeCluster(self.llm, cluster_id, args.user_histories,
                                 cluster_size_total)} :
            /\ self.llm_calls + r.llm_calls <= MaxLLMCalls
            /\ self' = [self EXCEPT !.llm_calls = @ + r.llm_calls]
            /\ report' = self.llm_calls
            /\ call' = [op |-> "analyze_cluster", cluster_id |-> cluster_id,
                        outcome |-> r.outcome,
                        result |-> IF r.outcome = "returned"
                                   THEN <<r.entry>> ELSE << >>]
            /\ UNCHANGED <<args, report2, everFit>>

\* analyzer.analyze_all_clusters(cluster_labels, user_histories)
AnalyzeAllClustersCall ==
    \E r \in {AnalyzeAllClusters(self.llm, args.cluster_labels,
                                 args.user_histories)} :
        /\ self.llm_calls + Len(r) <= MaxLLMCalls
        /\ self' = [self EXCEPT !.llm_calls = @ + Len(r)]
        /\ report' = self.llm_calls
        /\ call' = [op |-> "analyze_all_clusters", cluster_id |-> -1,
                    outcome |-> "returned", result |-> r]
        /\ UNCHANGED <<args, report2, everFit>>

NextAnalyze ==
    \/ AnalyzeClusterCall
    \/ AnalyzeAllClustersCall

SpecAnalyze == InitAnalyze /\ [][NextAnalyze]_vars

----------------------------------------------------------------------------
(* Properties under SpecAnalyze                                            *)

\* The rows of the label array that carry the label.
RowsCarrying(label) ==
    {i \in DOMAIN args.cluster_labels : args.cluster_labels[i] = label}

\* C22: analyze_all_clusters returns one entry per distinct non-noise label of
\* the label array, in ascending cluster-id order; -1 has no entry; an
\* entry's size is the number of rows carrying its label (and its statistics
\* are those rows'); the sizes sum to the number of non-noise rows.
C22_OneEntryPerCluster ==
    call.op = "analyze_all_clusters" =>
        /\ call.outcome = "returned"
        /\ {call.result[k].cluster_id : k \in DOMAIN call.result}
              = {args.cluster_labels[i] : i \in DOMAIN args.cluster_labels} \ {-1}
        /\ \A j, k \in DOMAIN call.result :
              j < k => call.result[j].cluster_id < call.result[k].cluster_id
        /\ \A k \in DOMAIN call.result :
              /\ call.result[k].size
                    = Cardinality(RowsCarrying(call.result[k].cluster_id))
              /\ call.result[k].statistics.total_sessions
                    = SumOver(args.user_histories,
                              RowsCarrying(call.result[k].cluster_id))
        /\ SumOver([k \in DOMAIN call.result |-> call.result[k].size],
                   DOMAIN call.result)
              = Cardinality({i \in DOMAIN args.cluster_labels :
                                args.cluster_labels[i] # -1})

\* analyze_all_clusters has returned two entries for an array with a noise
\* row whose cluster ids occur in descending order.
C22_Witness ==
    /\ call.op = "analyze_all_clusters"
    /\ args.cluster_labels = <<2, -1, 0>>
    /\ args.user_histories = <<1, 0, 1>>
    /\ Len(call.result) = 2
    /\ call.result[1].cluster_id = 0
    /\ call.result[2].statistics.total_sessions = 1

\* C25: when the language service raises, or the parser reads no JSON object
\* out of its response (neither as it stands nor after the trailing-comma
\* repair), analyze_cluster still returns an entry; its persona is the
\* fallback persona 'Pattern <cluster_id> Users' with LTV multiplier 1.0 and
\* bid modifier 0.0; and the service was called exactly once for the cluster.
C25_FallbackPersona ==
    (/\ call.op = "analyze_cluster"
     /\ self.llm.raises \/ ParsePersonaResponse(self.llm.response) = None) =>
        /\ call.outcome = "returned"
        /\ Len(call.result) = 1
        /\ call.result[1].cluster_id = call.cluster_id
        /\ call.result[1].persona.persona_name
              = "Pattern " \o ToString(call.cluster_id) \o " Users"
        /\ call.result[1].persona.estimated_ltv_multiplier = <<1, 1>>
        /\ call.result[1].persona.recommended_bid_modifier = <<0, 1>>
        /\ call.result[1].persona.motivations = "Analysis required"
        /\ self.llm_calls = report + 1

\* analyze_cluster has returned the fallback persona for cluster 2 after a
\* response whose object has its trailing comma on the line before the brace.
C25_Witness ==
    /\ call.op = "analyze_cluster"
    /\ call.cluster_id = 2
    /\ ~self.llm.raises
    /\ self.llm.response = << <<"{">>, <<"m", ",">>, <<"}">> >>
    /\ call.outcome = "returned"
    /\ call.result[1].persona.persona_name = "Pattern 2 Users"

----------------------------------------------------------------------------
(* The journey stages of the behavioural block                             *)
(* (_extract_behavioral_features, embedder.py 132-160).                    *)

\* Most records of a history under SpecStages.
MaxStageHistory == 2

\* The intent labels of the records under SpecStages: lower, mixed and upper
\* case, words of one vocabulary and of two, a word of a vocabulary inside
\* another word ("already"), the stem of one without its ending
\* ("comparison"), and words of no vocabulary.
StageLabels ==
    {"research_category", "Compare_Deals", "ready_to_purchase",
     "BROWSING_inspiration", "evaluate_fit", "compare_then_purchase",
     "comparison_shopping", "already_bought", "gift_shopping"}

\* Records that carry nothing but an intent label, or not even that.
StageRecords ==
    {IntentRecord([intent |-> intent, confidence |-> << >>, channel |-> << >>,
                   engagement_level |-> << >>],
                  << >>,
                  [urgency_level |-> << >>, expertise_level |-> << >>,
                   has_budget_constraint |-> << >>, has_time_constraint |-> << >>,
                   has_knowledge_gap |-> << >>]) :
        intent \in {<< >>} \cup {<<label>> : label \in StageLabels}}

\* An embedder and the history handed to create_embedding.
InitStages ==
    /\ \E embedding_dim \in EncoderDims : self = NewEmbedder(embedding_dim)
    /\ call = NoCall
    /\ everFit = FALSE
    /\ \E user_history \in HistoriesOf(StageRecords, MaxStageHistory) :
        args = [user_history |-> user_history]
    /\ report = << >>
    /\ report2 = << >>

NextStages == CreateEmbedding

\* One create_embedding call, for every history of labelled records.
SpecStages == InitStages /\ [][NextStages]_vars

\* The stages whose vocabulary (research: research, browsing; comparison:
\* compare, evaluate; decision: ready, purchase) has a word inside the label
\* when case is ignored, label by label.
StagesOfLabel(label) ==
    CASE label = "research_category" -> {"research"}
      [] label = "Compare_Deals" -> {"comparison"}
      [] label = "ready_to_purchase" -> {"decision"}
      [] label = "BROWSING_inspiration" -> {"research"}
      [] label = "evaluate_fit" -> {"comparison"}
      [] label = "compare_then_purchase" -> {"comparison", "decision"}
      [] label = "comparison_shopping" -> {}
      [] label = "already_bought" -> {"decision"}
      [] label = "gift_shopping" -> {}

\* The sessions of the history that count toward the stage: a record without
\* intent counts toward none.
SessionsOfStage(stage) ==
    {i \in DOMAIN args.user_history :
        /\ args.user_history[i].intent # << >>
        /\ stage \in StagesOfLabel(args.user_history[i].intent[1])}

\* Entry k of the behavioural block of the vector returned.
BehaviouralEntry(k) == report[1][self.embedding_dim + k]

\* C24: in the behavioural block a session counts toward a stage exactly when
\* its intent label, case ignored, contains a word of that stage's vocabulary;
\* the stages are counted independently of each other, a record without
\* intent counts toward none, and the reached-decision flag is 1 exactly when
\* the decision count is positive.
C24_StageCounts ==
    (call.op = "create_embedding" /\ args.user_history # << >>) =>
        /\ call.outcome = "returned"
        /\ \E n \in {Len(args.user_history)} :
           \E research_count \in {Cardinality(SessionsOfStage("research"))},
              compare_count \in {Cardinality(SessionsOfStage("comparison"))},
              decision_count \in {Cardinality(SessionsOfStage("decision"))} :
                /\ BehaviouralEntry(4) = <<research_count, n>>
                /\ BehaviouralEntry(5) = <<compare_count, n>>
                /\ BehaviouralEntry(6) = <<decision_count, n>>
                /\ BehaviouralEntry(11) = Num(IF decision_count > 0 THEN 1 ELSE 0)
                /\ BehaviouralEntry(14) = Num(research_count)
                /\ BehaviouralEntry(15) = Num(compare_count)

\* create_embedding has returned for a history whose labels are one of two
\* vocabularies and an upper-case one: each of the three stages counts one
\* session, the flag is 1.
C24_Witness ==
    /\ call.op = "create_embedding"
    /\ call.outcome = "returned"
    /\ Len(args.user_history) = 2
    /\ args.user_history[1].intent = <<"compare_then_purchase">>
    /\ args.user_history[2].intent = <<"BROWSING_inspiration">>
    /\ BehaviouralEntry(4) = <<1, 2>>
    /\ BehaviouralEntry(5) = <<1, 2>>
    /\ BehaviouralEntry(6) = <<1, 2>>
    /\ BehaviouralEntry(11) = Num(1)

====
